---- MODULE Spec2Model ----
\* py-broom (pybr): definition discovery and usage classification for Python
\* sources.  Text is modelled as sequences of one-character strings so that
\* the regular expressions of package finder are matched character by
\* character, as Go's regexp and strings packages do.
EXTENDS Integers, Sequences, FiniteSets, TLC

\* ---------------------------------------------------------------------------
\* Bounds
\* ---------------------------------------------------------------------------
\* longest classifier input line, counted in tokens of LineTokens
MaxTok == 3

\* most records in a list handed to the result pipeline on its own
MaxRecs == 3

\* most files in a tree
MaxFiles == 2

\* most entries in a tree with directories
MaxEntries == 5

\* most lines in the file of a one-file tree
MaxLines == 2

\* most raw lines in the output of one search handed to ParseUsages on its own
MaxRaw == 3

\* ---------------------------------------------------------------------------
\* Characters (Go regexp classes are ASCII: \w = [0-9A-Za-z_], \s = [\t\n\f\r ])
\* ---------------------------------------------------------------------------
UpperChars == {"A", "B", "C", "D", "E", "F", "G", "H", "I", "J", "K", "L", "M",
               "N", "O", "P", "Q", "R", "S", "T", "U", "V", "W", "X", "Y", "Z"}

LowerChars == {"a", "b", "c", "d", "e", "f", "g", "h", "i", "j", "k", "l", "m",
               "n", "o", "p", "q", "r", "s", "t", "u", "v", "w", "x", "y", "z"}

DigitChars == {"0", "1", "2", "3", "4", "5", "6", "7", "8", "9"}

IsUpper(c) == c \in UpperChars

IsWord(c) == c \in UpperChars \cup LowerChars \cup DigitChars \cup {"_"}

IsSpace(c) == c \in {" ", "\t", "\n", "\r", "\f"}

\* ---------------------------------------------------------------------------
\* package strings
\* ---------------------------------------------------------------------------
\* s has w as a substring starting at (1-based) position i
HasAt(s, i, w) ==
    /\ i >= 1
    /\ i + Len(w) - 1 <= Len(s)
    /\ \A k \in 1..Len(w) : s[i + k - 1] = w[k]

HasPrefix(s, w) == HasAt(s, 1, w)

HasSuffix(s, w) == HasAt(s, Len(s) - Len(w) + 1, w)

Contains(s, w) == \E i \in 1..(Len(s) - Len(w) + 1) : HasAt(s, i, w)

\* strings.Index, 1-based; 0 stands for Go's -1
Index(s, w) ==
    IF Contains(s, w)
    THEN CHOOSE i \in 1..(Len(s) - Len(w) + 1) :
            HasAt(s, i, w) /\ \A j \in 1..(i - 1) : ~HasAt(s, j, w)
    ELSE 0

TrimSpace(s) ==
    LET keep == {i \in 1..Len(s) : ~IsSpace(s[i])}
    IN  IF keep = {} THEN <<>>
        ELSE LET lo == CHOOSE i \in keep : \A j \in keep : i <= j
                 hi == CHOOSE i \in keep : \A j \in keep : j <= i
             IN  SubSeq(s, lo, hi)

\* ---------------------------------------------------------------------------
\* Call types
\* ---------------------------------------------------------------------------
CallTypeInstance == "instance"

CallTypeClass == "class"

CallTypeStatic == "static"

CallTypeFunction == "function"

CallTypeDefinition == "definition"

CallTypeDecorator == "decorator"

CallTypes == {CallTypeInstance, CallTypeClass, CallTypeStatic,
              CallTypeFunction, CallTypeDefinition, CallTypeDecorator}

\* ---------------------------------------------------------------------------
\* The six regular expressions of buildCallPatterns.  Method names are
\* identifiers ([a-zA-Z_][a-zA-Z0-9_]*), on which regexp.QuoteMeta changes
\* nothing, so the name is matched literally.
\* ---------------------------------------------------------------------------
\* `\s*\(` matches at position i
SpacesThenParen(s, i) ==
    \E j \in i..Len(s) :
        /\ s[j] = "("
        /\ \A k \in i..(j - 1) : IsSpace(s[k])

\* name `\s*\(` matches at position i
NameCallAt(s, i, name) == HasAt(s, i, name) /\ SpacesThenParen(s, i + Len(name))

\* `\b` between positions i-1 and i, where s[i] is a word character
WordStartAt(s, i) == i = 1 \/ ~IsWord(s[i - 1])

\* `\b` name `\s*\(` : the pattern handed to the search tool
MatchSearch(s, name) ==
    \E i \in 1..Len(s) :
        /\ NameCallAt(s, i, name)
        /\ (IsWord(name[1]) => WordStartAt(s, i))

\* `^\s*def\s+` name `\s*\(`
MatchDefinition(s, name) ==
    \E i \in 1..Len(s) :
        /\ \A k \in 1..(i - 1) : IsSpace(s[k])
        /\ HasAt(s, i, <<"d", "e", "f">>)
        /\ \E j \in (i + 4)..Len(s) :
              /\ \A k \in (i + 3)..(j - 1) : IsSpace(s[k])
              /\ NameCallAt(s, j, name)

\* `(\w+\.)*` matches exactly s[a..b-1]
DottedPrefix(s, a, b) ==
    \/ a = b
    \/ /\ a < b
       /\ IsWord(s[a])
       /\ s[b - 1] = "."
       /\ \A k \in a..(b - 1) : IsWord(s[k]) \/ s[k] = "."
       /\ \A k \in a..(b - 2) : ~(s[k] = "." /\ s[k + 1] = ".")

\* `^\s*@(\w+\.)*` name `\s*$`
MatchDecorator(s, name) ==
    \E i \in 1..Len(s) :
        /\ \A k \in 1..(i - 1) : IsSpace(s[k])
        /\ s[i] = "@"
        /\ \E j \in (i + 1)..Len(s) :
              /\ DottedPrefix(s, i + 1, j)
              /\ HasAt(s, j, name)
              /\ \A k \in (j + Len(name))..Len(s) : IsSpace(s[k])

\* `\bself\.` name `\s*\(`
MatchInstance(s, name) ==
    \E i \in 1..Len(s) :
        /\ WordStartAt(s, i)
        /\ HasAt(s, i, <<"s", "e", "l", "f", ".">>)
        /\ NameCallAt(s, i + 5, name)

\* `\bcls\.` name `\s*\(`
MatchClass(s, name) ==
    \E i \in 1..Len(s) :
        /\ WordStartAt(s, i)
        /\ HasAt(s, i, <<"c", "l", "s", ".">>)
        /\ NameCallAt(s, i + 4, name)

\* the static pattern with any identifier as receiver: `\b[a-zA-Z_]\w*\.` ...
MatchStatic_AnyReceiver(s, name) ==
    \E i \in 1..Len(s) :
        /\ IsWord(s[i])
        /\ WordStartAt(s, i)
        /\ \E k \in (i + 1)..Len(s) :
              /\ \A m \in (i + 1)..(k - 1) : IsWord(s[m])
              /\ s[k] = "."
              /\ NameCallAt(s, k + 1, name)

\* `\b[A-Z][a-zA-Z0-9_]*\.` name `\s*\(`
MatchStatic(s, name) ==
    \E i \in 1..Len(s) :
        /\ IsUpper(s[i])
        /\ WordStartAt(s, i)
        /\ \E k \in (i + 1)..Len(s) :
              /\ \A m \in (i + 1)..(k - 1) : IsWord(s[m])
              /\ s[k] = "."
              /\ NameCallAt(s, k + 1, name)

\* `(?:^|[^\w.])` name `\s*\(`
MatchFunction(s, name) ==
    \E i \in 1..Len(s) :
        /\ NameCallAt(s, i, name)
        /\ (i = 1 \/ (~IsWord(s[i - 1]) /\ s[i - 1] # "."))

\* regexp.MatchString of the pattern built for one call type
MatchString(pattern, s) ==
    CASE pattern.re = CallTypeDefinition -> MatchDefinition(s, pattern.name)
      [] pattern.re = CallTypeDecorator  -> MatchDecorator(s, pattern.name)
      [] pattern.re = CallTypeInstance   -> MatchInstance(s, pattern.name)
      [] pattern.re = CallTypeClass      -> MatchClass(s, pattern.name)
      [] pattern.re = CallTypeStatic     -> MatchStatic(s, pattern.name)
      [] pattern.re = CallTypeFunction   -> MatchFunction(s, pattern.name)

CallPattern(type, methodName) ==
    [Type |-> type, Pattern |-> [re |-> type, name |-> methodName]]

\* the patterns with the static pattern tried before the instance pattern
buildCallPatterns_StaticFirst(methodName) ==
    << CallPattern(CallTypeDefinition, methodName),
       CallPattern(CallTypeDecorator, methodName),
       CallPattern(CallTypeStatic, methodName),
       CallPattern(CallTypeInstance, methodName),
       CallPattern(CallTypeClass, methodName),
       CallPattern(CallTypeFunction, methodName) >>

buildCallPatterns(methodName) ==
    << CallPattern(CallTypeDefinition, methodName),
       CallPattern(CallTypeDecorator, methodName),
       CallPattern(CallTypeInstance, methodName),
       CallPattern(CallTypeClass, methodName),
       CallPattern(CallTypeStatic, methodName),
       CallPattern(CallTypeFunction, methodName) >>

\* the display order with static before instance
GetCallTypeOrder_StaticFirst ==
    << CallTypeDefinition, CallTypeStatic, CallTypeInstance, CallTypeClass,
       CallTypeFunction, CallTypeDecorator >>

\* the order in which the printer lists the groups of a record
GetCallTypeOrder ==
    << CallTypeDefinition, CallTypeInstance, CallTypeClass, CallTypeStatic,
       CallTypeFunction, CallTypeDecorator >>

\* ---------------------------------------------------------------------------
\* classifyUsage
\* ---------------------------------------------------------------------------
\* Go's ("", false)
NoMatch == [callType |-> "", valid |-> FALSE]

Matched(type) == [callType |-> type, valid |-> TRUE]

\* the line is never cut
codePart_NoCut(line) == line

\* the text the patterns are tried on: the line cut at its first '#'
codePart(line) ==
    LET idx == Index(line, <<"#">>)
    IN  IF idx # 0 THEN SubSeq(line, 1, idx - 1) ELSE line

RECURSIVE classifyLoop(_, _, _, _)
\* the range loop over the patterns, from pattern k on
classifyLoop(patterns, line, methodName, k) ==
    IF k > Len(patterns) THEN NoMatch
    ELSE IF MatchString(patterns[k].Pattern, line)
         THEN IF /\ patterns[k].Type = CallTypeFunction
                 /\ Contains(line, <<".">> \o methodName)
              THEN classifyLoop(patterns, line, methodName, k + 1)
              ELSE Matched(patterns[k].Type)
         ELSE classifyLoop(patterns, line, methodName, k + 1)

\* classifyUsage without its two comment checks
classifyUsage_NoComments(line, methodName) ==
    classifyLoop(buildCallPatterns(methodName), line, methodName, 1)

classifyUsage(line, methodName) ==
    IF HasPrefix(TrimSpace(line), <<"#">>) THEN NoMatch
    ELSE IF /\ Index(line, <<"#">>) # 0
            /\ ~Contains(codePart(line), methodName)
         THEN NoMatch
         ELSE classifyLoop(buildCallPatterns(methodName), codePart(line),
                           methodName, 1)

\* ---------------------------------------------------------------------------
\* More of package strings, strconv and fmt
\* ---------------------------------------------------------------------------
RECURSIVE Split(_, _)
\* strings.Split(s, sep) for a one-character separator
Split(s, sep) ==
    LET idx == Index(s, <<sep>>)
    IN  IF idx = 0 THEN <<s>>
        ELSE <<SubSeq(s, 1, idx - 1)>> \o Split(SubSeq(s, idx + 1, Len(s)), sep)

RECURSIVE SplitN(_, _, _)
\* strings.SplitN(s, sep, n) for a one-character separator and n > 0
SplitN(s, sep, n) ==
    LET idx == Index(s, <<sep>>)
    IN  IF n = 1 \/ idx = 0 THEN <<s>>
        ELSE <<SubSeq(s, 1, idx - 1)>>
                 \o SplitN(SubSeq(s, idx + 1, Len(s)), sep, n - 1)

Digit(n) == CASE n = 0 -> "0" [] n = 1 -> "1" [] n = 2 -> "2" [] n = 3 -> "3"
              [] n = 4 -> "4" [] n = 5 -> "5" [] n = 6 -> "6" [] n = 7 -> "7"
              [] n = 8 -> "8" [] n = 9 -> "9"

RECURSIVE Itoa(_)
\* the decimal text of a natural number (%d)
Itoa(n) == IF n < 10 THEN <<Digit(n)>> ELSE Itoa(n \div 10) \o <<Digit(n % 10)>>

RECURSIVE Join(_, _)
\* strings.Join(parts, sep)
Join(parts, sep) ==
    IF parts = <<>> THEN <<>>
    ELSE IF Len(parts) = 1 THEN parts[1]
         ELSE parts[1] \o sep \o Join(Tail(parts), sep)

\* the characters of the model in ASCII order
AsciiOrder ==
    << "\t", "\n", "\f", "\r", " ", "#", "(", ")", "-", ".", "/",
       "0", "1", "2", "3", "4", "5", "6", "7", "8", "9", ":", "@",
       "A", "B", "C", "D", "E", "F", "G", "H", "I", "J", "K", "L", "M",
       "N", "O", "P", "Q", "R", "S", "T", "U", "V", "W", "X", "Y", "Z", "_",
       "a", "b", "c", "d", "e", "f", "g", "h", "i", "j", "k", "l", "m",
       "n", "o", "p", "q", "r", "s", "t", "u", "v", "w", "x", "y", "z" >>

Code(c) == CHOOSE i \in 1..Len(AsciiOrder) : AsciiOrder[i] = c

RECURSIVE StrLess(_, _)
\* a < b on Go strings: bytewise lexicographic
StrLess(a, b) ==
    IF b = <<>> THEN FALSE
    ELSE IF a = <<>> THEN TRUE
    ELSE IF Head(a) = Head(b) THEN StrLess(Tail(a), Tail(b))
    ELSE Code(Head(a)) < Code(Head(b))

\* ---------------------------------------------------------------------------
\* Files
\* ---------------------------------------------------------------------------
PyExt == <<".", "p", "y">>

isPythonFile(filename) == HasSuffix(filename, PyExt)

IgnoredDirs ==
    { <<".", "g", "i", "t">>,
      <<"_", "_", "p", "y", "c", "a", "c", "h", "e", "_", "_">>,
      <<".", "v", "e", "n", "v">>,
      <<"v", "e", "n", "v">>,
      <<"n", "o", "d", "e", "_", "m", "o", "d", "u", "l", "e", "s">> }

\* A tree is the sequence of the entries below the root in the order WalkDir
\* visits them; an entry is [Dir, Base, IsDir, Data]: Dir is the sequence of
\* the directory names from the root to the entry's parent.
EntryPath(e) == Join(e.Dir \o <<e.Base>>, <<"/">>)

\* filepath.Dir of a path without a directory is "."
File(e) ==
    [Dir |-> IF e.Dir = <<>> THEN <<".">> ELSE Join(e.Dir, <<"/">>),
     Base |-> e.Base, Path |-> EntryPath(e)]

\* the descendants of a skipped directory are visited like any other entry
Pruned_Never(e) == FALSE

\* the entry lies below a directory that the walk skipped
Pruned(e) == \E k \in 1..Len(e.Dir) : e.Dir[k] \in IgnoredDirs

RECURSIVE walk(_, _)
\* the callback of WalkDir applied to the entries from position k on
walk(t, k) ==
    IF k > Len(t) THEN <<>>
    ELSE IF Pruned(t[k]) \/ (t[k].IsDir /\ t[k].Base \in IgnoredDirs)
         THEN walk(t, k + 1)
         ELSE IF isPythonFile(EntryPath(t[k]))
              THEN <<File(t[k])>> \o walk(t, k + 1)
              ELSE walk(t, k + 1)

ReadDir(t) == walk(t, 1)

\* WalkDir hands the callback an error for the root when it cannot be
\* examined (site 0) and for a directory it entered and could not read (its
\* position in the tree); a directory the callback skipped is never read
ErrorSites(t) ==
    {0} \cup {k \in 1..Len(t) : /\ t[k].IsDir
                                 /\ ~Pruned(t[k])
                                 /\ t[k].Base \notin IgnoredDirs}

\* pythonFiles when the callback returns the error of site bad: the walk
\* ends there
walkStopped(t, bad) == IF bad = 0 THEN <<>> ELSE walk(SubSeq(t, 1, bad), 1)

\* ---------------------------------------------------------------------------
\* FindMethods: the scan of one file
\* ---------------------------------------------------------------------------
IsIdentStart(c) == c \in UpperChars \cup LowerChars \cup {"_"}

\* first position at or after i that holds no white space (Len(s)+1 if none)
SkipSpaces(s, i) ==
    CHOOSE j \in i..(Len(s) + 1) :
        /\ \A k \in i..(j - 1) : IsSpace(s[k])
        /\ (j <= Len(s) => ~IsSpace(s[j]))

\* last position of the run of word characters that starts at j
WordEnd(s, j) ==
    CHOOSE e \in j..Len(s) :
        /\ \A k \in j..e : IsWord(s[k])
        /\ (e < Len(s) => ~IsWord(s[e + 1]))

\* `def\s+([a-zA-Z_][a-zA-Z0-9_]*)\s*\(` matches with "def" at position i
DefMatchAt(s, i) ==
    /\ HasAt(s, i, <<"d", "e", "f">>)
    /\ LET j == SkipSpaces(s, i + 3)
       IN  /\ j > i + 3
           /\ j <= Len(s)
           /\ IsIdentStart(s[j])
           /\ SpacesThenParen(s, WordEnd(s, j) + 1)

\* FindStringSubmatch: <<>> when the line has no match, else <<group 1>> of
\* the leftmost match
FindStringSubmatch(s) ==
    LET starts == {i \in 1..Len(s) : DefMatchAt(s, i)}
    IN  IF starts = {} THEN <<>>
        ELSE LET i == CHOOSE x \in starts : \A y \in starts : x <= y
                 j == SkipSpaces(s, i + 3)
             IN  <<SubSeq(s, j, WordEnd(s, j))>>

\* no name counts as private
isPrivateMethod_Never(methodName) == FALSE

isPrivateMethod(methodName) == HasPrefix(methodName, <<"_">>)

Method(name, filename, lineNo) ==
    [Name |-> name, Filename |-> filename, LineNo |-> lineNo]

RECURSIVE scanLines_ZeroBased(_, _, _, _)
\* the loop index is taken as the line number
scanLines_ZeroBased(lines, lineNo, path, skipPrivate) ==
    IF lineNo >= Len(lines) THEN <<>>
    ELSE LET matches == FindStringSubmatch(lines[lineNo + 1])
             rest == scanLines_ZeroBased(lines, lineNo + 1, path, skipPrivate)
         IN  IF matches = <<>> THEN rest
             ELSE IF skipPrivate /\ isPrivateMethod(matches[1]) THEN rest
                  ELSE <<Method(matches[1], path, lineNo)>> \o rest

RECURSIVE scanLines(_, _, _, _)
\* the loop over the lines of one file, from (0-based) index lineNo on
scanLines(lines, lineNo, path, skipPrivate) ==
    IF lineNo >= Len(lines) THEN <<>>
    ELSE LET matches == FindStringSubmatch(lines[lineNo + 1])
             rest == scanLines(lines, lineNo + 1, path, skipPrivate)
         IN  IF matches = <<>> THEN rest
             ELSE IF skipPrivate /\ isPrivateMethod(matches[1]) THEN rest
                  ELSE <<Method(matches[1], path, lineNo + 1)>> \o rest

\* the list one scan task sends: nothing when the read failed
fileMethods(file, data, readOk, skipPrivate) ==
    IF ~readOk THEN <<>>
    ELSE scanLines(Split(data, "\n"), 0, file.Path, skipPrivate)

\* ---------------------------------------------------------------------------
\* searchMethodUsages: `rg --vimgrep --glob *.py [--glob !test_*.py --glob
\* !*_test.py] '\b<name>\s*\(' searchDir`, one output line per match
\* ---------------------------------------------------------------------------
RECURSIVE SetToSeq(_)
\* the numbers of a finite set in ascending order
SetToSeq(S) ==
    IF S = {} THEN <<>>
    ELSE LET m == CHOOSE x \in S : \A y \in S : x <= y
         IN  <<m>> \o SetToSeq(S \ {m})

\* the search pattern without its `\s*\(`: every occurrence of the name that
\* starts a word
MatchCols_NameOnly(s, name) ==
    {i \in 1..Len(s) : HasAt(s, i, name) /\ WordStartAt(s, i)}

\* the columns at which `\b<name>\s*\(` matches in a line
MatchCols(s, name) ==
    {i \in 1..Len(s) : NameCallAt(s, i, name) /\ WordStartAt(s, i)}

\* the test files are left out whatever --skip-tests says
GlobOk_TestsNeverSearched(base, skipTests) ==
    /\ HasSuffix(base, PyExt)
    /\ ~HasPrefix(base, <<"t", "e", "s", "t", "_">>)
    /\ ~HasSuffix(base, <<"_", "t", "e", "s", "t">> \o PyExt)

\* the file name passes the globs of the search
GlobOk(base, skipTests) ==
    /\ HasSuffix(base, PyExt)
    /\ skipTests =>
          /\ ~HasPrefix(base, <<"t", "e", "s", "t", "_">>)
          /\ ~HasSuffix(base, <<"_", "t", "e", "s", "t">> \o PyExt)

RECURSIVE rgCols(_, _, _, _)
rgCols(path, lineNo, content, cols) ==
    IF cols = <<>> THEN <<>>
    ELSE <<path \o <<":">> \o Itoa(lineNo) \o <<":">> \o Itoa(Head(cols))
                \o <<":">> \o content>>
             \o rgCols(path, lineNo, content, Tail(cols))

RECURSIVE rgLines(_, _, _, _)
rgLines(path, lines, k, name) ==
    IF k > Len(lines) THEN <<>>
    ELSE rgCols(path, k, lines[k], SetToSeq(MatchCols(lines[k], name)))
             \o rgLines(path, lines, k + 1, name)

RECURSIVE rgTree(_, _, _, _)
\* the matches the search tool prints for the entries from position k on
rgTree(t, k, name, skipTests) ==
    IF k > Len(t) THEN <<>>
    ELSE IF ~t[k].IsDir /\ GlobOk(t[k].Base, skipTests)
         THEN rgLines(EntryPath(t[k]), Split(t[k].Data, "\n"), 1, name)
                  \o rgTree(t, k + 1, name, skipTests)
         ELSE rgTree(t, k + 1, name, skipTests)

\* the bytes on the tool's standard output: every match ends with a newline
rgOutput(t, name, skipTests) ==
    LET ms == rgTree(t, 1, name, skipTests)
    IN  IF ms = <<>> THEN <<>> ELSE Join(ms, <<"\n">>) \o <<"\n">>

\* searchMethodUsages: [lines, err]; the tool exits 1 when it prints no match
\* and `failed` stands for every other failure of the command
searchMethodUsages(t, methodName, skipTests, failed) ==
    IF failed THEN [lines |-> <<>>, err |-> TRUE]
    ELSE LET out == rgOutput(t, methodName, skipTests)
         IN  IF out = <<>> THEN [lines |-> <<>>, err |-> FALSE]
             ELSE [lines |-> Split(TrimSpace(out), "\n"), err |-> FALSE]

\* ---------------------------------------------------------------------------
\* ParseUsages
\* ---------------------------------------------------------------------------
Import == <<"i", "m", "p", "o", "r", "t", " ">>

From == <<"f", "r", "o", "m", " ">>

isImportLine(line) ==
    HasPrefix(TrimSpace(line), Import) \/ HasPrefix(TrimSpace(line), From)

Usage(location, callType, context) ==
    [Location |-> location, CallType |-> callType, Context |-> context]

\* the body of the loop for one raw line: <<>> when the line is skipped
parseOne(rawUsage, methodName, filters, definedFile) ==
    LET parts == SplitN(rawUsage, ":", 4)
    IN  IF Len(parts) < 4 THEN <<>>
        ELSE IF filters.SkipImports /\ isImportLine(parts[4]) THEN <<>>
        ELSE LET c == classifyUsage(parts[4], methodName)
             IN  IF ~c.valid THEN <<>>
                 ELSE IF /\ filters.SkipDefinitions
                         /\ c.callType = CallTypeDefinition
                         /\ parts[1] # definedFile
                      THEN <<>>
                      ELSE <<Usage(parts[1] \o <<":">> \o parts[2] \o <<":">>
                                       \o parts[3],
                                   c.callType, TrimSpace(parts[4]))>>

RECURSIVE ParseUsages_StopsAtMalformed(_, _, _, _)
\* the loop ends at the first raw line with fewer than four fields
ParseUsages_StopsAtMalformed(rawUsages, methodName, filters, definedFile) ==
    IF rawUsages = <<>> THEN <<>>
    ELSE IF Len(SplitN(Head(rawUsages), ":", 4)) < 4 THEN <<>>
    ELSE parseOne(Head(rawUsages), methodName, filters, definedFile)
             \o ParseUsages_StopsAtMalformed(Tail(rawUsages), methodName,
                                             filters, definedFile)

RECURSIVE ParseUsages(_, _, _, _)
ParseUsages(rawUsages, methodName, filters, definedFile) ==
    IF rawUsages = <<>> THEN <<>>
    ELSE parseOne(Head(rawUsages), methodName, filters, definedFile)
             \o ParseUsages(Tail(rawUsages), methodName, filters, definedFile)

\* ---------------------------------------------------------------------------
\* AnalyzeMethodUsages: the record one search task sends
\* ---------------------------------------------------------------------------
\* usagesByType[t]++ on a Go map (a missing key reads as 0)
Incr(m, t) ==
    [x \in DOMAIN m \cup {t} |->
        IF x = t THEN (IF t \in DOMAIN m THEN m[t] ELSE 0) + 1 ELSE m[x]]

RECURSIVE countByType(_, _)
\* the counting loop over the usages from position k on, started on map m
countByType(usages, m) ==
    IF usages = <<>> THEN m
    ELSE countByType(Tail(usages), Incr(m, Head(usages).CallType))

EmptyMap == [x \in {} |-> 0]

MethodUsage(m, usages, usagesByType, totalUsages) ==
    [Method |-> m, Usages |-> usages, UsagesByType |-> usagesByType,
     TotalUsages |-> totalUsages]

\* the task counts the raw matches instead of the usages
searchResult_CountsRaw(m, found, filters) ==
    IF found.err THEN MethodUsage(m, <<>>, EmptyMap, 0)
    ELSE LET usages == ParseUsages(found.lines, m.Name, filters, m.Filename)
         IN  MethodUsage(m, usages, countByType(usages, EmptyMap),
                         Len(found.lines))

\* what the task for method m sends, given the outcome of its search
searchResult(m, found, filters) ==
    IF found.err THEN MethodUsage(m, <<>>, EmptyMap, 0)
    ELSE LET usages == ParseUsages(found.lines, m.Name, filters, m.Filename)
         IN  MethodUsage(m, usages, countByType(usages, EmptyMap), Len(usages))

\* ---------------------------------------------------------------------------
\* FilterByUsageCount and SortResults
\* ---------------------------------------------------------------------------
RECURSIVE FilterByUsageCount_Exclusive(_, _, _)
\* the bounds are exclusive
FilterByUsageCount_Exclusive(results, minUsages, maxUsages) ==
    IF results = <<>> THEN <<>>
    ELSE LET r == Head(results)
             rest == FilterByUsageCount_Exclusive(Tail(results), minUsages,
                                                  maxUsages)
         IN  IF minUsages >= 0 /\ r.TotalUsages <= minUsages THEN rest
             ELSE IF maxUsages >= 0 /\ r.TotalUsages >= maxUsages THEN rest
             ELSE <<r>> \o rest

RECURSIVE FilterByUsageCount_Prepend(_, _, _)
\* the kept records are prepended to the output
FilterByUsageCount_Prepend(results, minUsages, maxUsages) ==
    IF results = <<>> THEN <<>>
    ELSE LET r == Head(results)
             rest == FilterByUsageCount_Prepend(Tail(results), minUsages,
                                                maxUsages)
         IN  IF minUsages >= 0 /\ r.TotalUsages < minUsages THEN rest
             ELSE IF maxUsages >= 0 /\ r.TotalUsages > maxUsages THEN rest
             ELSE rest \o <<r>>

RECURSIVE FilterByUsageCount(_, _, _)
FilterByUsageCount(results, minUsages, maxUsages) ==
    IF results = <<>> THEN <<>>
    ELSE LET r == Head(results)
             rest == FilterByUsageCount(Tail(results), minUsages, maxUsages)
         IN  IF minUsages >= 0 /\ r.TotalUsages < minUsages THEN rest
             ELSE IF maxUsages >= 0 /\ r.TotalUsages > maxUsages THEN rest
             ELSE <<r>> \o rest

SortByName == <<"n", "a", "m", "e">>

SortByFile == <<"f", "i", "l", "e">>

SortByUsages == <<"u", "s", "a", "g", "e", "s">>

ToLowerChar(c) ==
    IF c \in UpperChars
    THEN AsciiOrder[Code(c) + (Code("a") - Code("A"))]
    ELSE c

\* the key is compared as written
ToLower_AsWritten(s) == s

ToLower(s) == [i \in 1..Len(s) |-> ToLowerChar(s[i])]

\* ties of the key file are broken by symbol name
less_FileTieByName(a, b, sortBy) ==
    CASE ToLower(sortBy) = SortByName -> StrLess(a.Method.Name, b.Method.Name)
      [] ToLower(sortBy) = SortByUsages ->
            IF a.TotalUsages = b.TotalUsages
            THEN StrLess(a.Method.Name, b.Method.Name)
            ELSE a.TotalUsages < b.TotalUsages
      [] OTHER ->
            IF a.Method.Filename = b.Method.Filename
            THEN StrLess(a.Method.Name, b.Method.Name)
            ELSE StrLess(a.Method.Filename, b.Method.Filename)

\* the closure `less` of SortResults on two records
less(a, b, sortBy) ==
    CASE ToLower(sortBy) = SortByName -> StrLess(a.Method.Name, b.Method.Name)
      [] ToLower(sortBy) = SortByUsages ->
            IF a.TotalUsages = b.TotalUsages
            THEN StrLess(a.Method.Name, b.Method.Name)
            ELSE a.TotalUsages < b.TotalUsages
      [] OTHER ->
            IF a.Method.Filename = b.Method.Filename
            THEN a.Method.LineNo < b.Method.LineNo
            ELSE StrLess(a.Method.Filename, b.Method.Filename)

\* the comparison handed to sort.Slice
sortLess(a, b, sortBy, asc) ==
    IF asc THEN less(a, b, sortBy) ELSE ~less(a, b, sortBy)

Swap(s, i, j) == [s EXCEPT ![i] = s[j], ![j] = s[i]]

RECURSIVE insertDown(_, _, _, _)
\* the inner loop of the insertion sort: for j > a && less(j, j-1)
insertDown(s, j, sortBy, asc) ==
    IF j > 1 /\ sortLess(s[j], s[j - 1], sortBy, asc)
    THEN insertDown(Swap(s, j, j - 1), j - 1, sortBy, asc)
    ELSE s

RECURSIVE insertionSort(_, _, _, _)
\* sort.Slice on at most 12 elements is an insertion sort
insertionSort(s, i, sortBy, asc) ==
    IF i > Len(s) THEN s
    ELSE insertionSort(insertDown(s, i, sortBy, asc), i + 1, sortBy, asc)

SortResults(results, sortBy, asc) == insertionSort(results, 2, sortBy, asc)

\* ---------------------------------------------------------------------------
\* Inputs
\* ---------------------------------------------------------------------------
\* the lines the example files are written with
LnDefF == <<"d", "e", "f", " ", "f", "(">>

LnDefG == <<" ", "d", "e", "f", " ", "_", "g", "(">>

LnCallF == <<"f", "(">>

LnSelfF == <<"s", "e", "l", "f", ".", "f", "(">>

LnStaticF == <<"A", ".", "f", "(">>

LnComment == <<"#", " ", "f", "(">>

LnImport == <<"f", "r", "o", "m", " ", "f", "(">>

LnDecorator == <<"@", "f">>

NL == <<"\n">>

\* the names of the files of a tree, in the order the walk visits them, and
\* the contents each may have
FileNames ==
    << <<"a", ".", "p", "y">>,
       <<"t", "e", "s", "t", "_", "b", ".", "p", "y">>,
       <<"v", ".", "p", "y">>,
       <<"w", ".", "p", "y">> >>

FileData ==
    << { Join(<<LnDefF, LnCallF, LnSelfF>>, NL),
         Join(<<LnComment, LnDefF>>, NL) \o NL },
       { Join(<<<<>>, LnDefG, LnSelfF>>, NL),
         Join(<<LnDefF, LnImport>>, NL) },
       { Join(<<LnDecorator, LnStaticF>>, NL) },
       { Join(<<LnCallF, LnCallF>>, NL) } >>

Entry(dir, base, isDir, data) ==
    [Dir |-> dir, Base |-> base, IsDir |-> isDir, Data |-> data]

Trees ==
    { [k \in DOMAIN d |-> Entry(<<>>, FileNames[k], FALSE, d[k])] :
        d \in UNION { { e \in [1..n -> UNION {FileData[k] : k \in 1..n}] :
                          \A k \in 1..n : e[k] \in FileData[k] } :
                      n \in 0..MaxFiles } }

FileFilters ==
    [SkipPrivate : BOOLEAN, SkipImports : BOOLEAN, SkipTests : BOOLEAN,
     SkipDefinitions : BOOLEAN]

\* ---------------------------------------------------------------------------
\* State
\* ---------------------------------------------------------------------------
VARIABLES
    tree,           \* the directory tree the run is started on
    filters,        \* the flags --skip-private/-imports/-tests/-definitions
    pc,             \* where newRootCmd's RunE stands
    files,          \* the list ReadDir returned
    scanNext,       \* FindMethods: number of scan tasks started so far
    scanPc,         \* FindMethods: position of each scan task
    scanRead,       \* FindMethods: outcome of each task's readEntireFile
    scanWg,         \* FindMethods: the WaitGroup counter
    methodsChan,    \* FindMethods: the buffered channel
    methodsClosed,  \* FindMethods: the channel is closed
    allMethods,     \* FindMethods: the collector's list
    methods,        \* the list FindMethods returned
    searchNext,     \* AnalyzeMethodUsages: number of search tasks started
    searchPc,       \* AnalyzeMethodUsages: position of each search task
    searchOut,      \* AnalyzeMethodUsages: what each task's search returned
    searchWg,       \* AnalyzeMethodUsages: the WaitGroup counter
    resultsChan,    \* AnalyzeMethodUsages: the buffered channel
    resultsClosed,  \* AnalyzeMethodUsages: the channel is closed
    collected,      \* AnalyzeMethodUsages: the collector's list
    results,        \* the records RunE holds
    usageBounds,    \* the flags --min-usages and --max-usages, once read
    sortFlags,      \* the sort key and direction, once read
    clsLine,        \* classifier run: the line
    clsName,        \* classifier run: the symbol name
    clsResult       \* classifier run: what classifyUsage returned

scanVars == <<scanNext, scanPc, scanRead, scanWg, methodsChan, methodsClosed,
              allMethods>>

searchVars == <<searchNext, searchPc, searchOut, searchWg, resultsChan,
                resultsClosed, collected>>

endVars == <<results, usageBounds, sortFlags>>

clsVars == <<clsLine, clsName, clsResult>>

vars == <<tree, filters, pc, files, methods, scanVars, searchVars, endVars,
          clsVars>>

\* the flags that are read late, before RunE has read them
BoundsUnread == [read |-> FALSE, minUsages |-> -1, maxUsages |-> -1]

SortUnread == [read |-> FALSE, sortBy |-> <<>>, asc |-> TRUE]

\* the defaults of the four skip flags
DefaultFilters ==
    [SkipPrivate |-> FALSE, SkipImports |-> FALSE, SkipTests |-> TRUE,
     SkipDefinitions |-> FALSE]

\* rawUsages, err of a task before its search has returned
NotSearched == [lines |-> <<>>, err |-> FALSE]

Pending == [callType |-> "pending", valid |-> FALSE]

\* everything a run has before its first step
RunStart ==
    /\ pc = "start"
    /\ files = <<>>
    /\ scanNext = 0
    /\ scanPc = <<>>
    /\ scanRead = <<>>
    /\ scanWg = 0
    /\ methodsChan = <<>>
    /\ methodsClosed = FALSE
    /\ allMethods = <<>>
    /\ methods = <<>>
    /\ searchNext = 0
    /\ searchPc = <<>>
    /\ searchOut = <<>>
    /\ searchWg = 0
    /\ resultsChan = <<>>
    /\ resultsClosed = FALSE
    /\ collected = <<>>
    /\ results = <<>>
    /\ usageBounds = BoundsUnread
    /\ sortFlags = SortUnread

Init ==
    /\ tree \in Trees
    /\ filters \in FileFilters
    /\ RunStart
    /\ clsLine = <<>>
    /\ clsName = <<>>
    /\ clsResult = Pending

\* ---------------------------------------------------------------------------
\* RunE, up to the call of FindMethods
\* ---------------------------------------------------------------------------
\* exec.LookPath("rg") fails: the run ends before any work
RgMissing ==
    /\ pc = "start"
    /\ pc' = "exit_norg"
    /\ UNCHANGED <<tree, filters, files, methods, scanVars, searchVars,
                   endVars, clsVars>>

\* the walk fails on some entry: the run ends
ReadDirFails ==
    /\ pc = "start"
    /\ \E bad \in ErrorSites(tree) : files' = walkStopped(tree, bad)
    /\ pc' = "exit_readdir"
    /\ UNCHANGED <<tree, filters, methods, scanVars, searchVars, endVars,
                   clsVars>>

\* ReadDir succeeds; FindMethods is entered unless no file was found
ReadDirOk ==
    /\ pc = "start"
    /\ files' = ReadDir(tree)
    /\ pc' = IF Len(files') = 0 THEN "exit_nofiles" ELSE "fm_spawn"
    /\ scanPc' = [i \in 1..Len(files') |-> "new"]
    /\ scanRead' = [i \in 1..Len(files') |-> "none"]
    /\ UNCHANGED <<tree, filters, methods, scanNext, scanWg, methodsChan,
                   methodsClosed, allMethods, searchVars, endVars, clsVars>>

\* ---------------------------------------------------------------------------
\* FindMethods
\* ---------------------------------------------------------------------------
\* the channel is made without a buffer
chanCap_Unbuffered(n) == 0

\* make(chan []Method, len(files)), make(chan MethodUsage, len(methods)): the
\* capacity of the channel is the number of tasks
chanCap(n) == n

\* one iteration of the spawning loop: wg.Add(1); go func(file)
SpawnScan ==
    /\ pc = "fm_spawn"
    /\ scanNext < Len(files)
    /\ scanNext' = scanNext + 1
    /\ scanWg' = scanWg + 1
    /\ scanPc' = [scanPc EXCEPT ![scanNext + 1] = "running"]
    /\ UNCHANGED <<tree, filters, pc, files, methods, scanRead, methodsChan,
                   methodsClosed, allMethods, searchVars, endVars, clsVars>>

\* the loop is over: the closing goroutine is started and the collecting
\* loop entered
ScanSpawned ==
    /\ pc = "fm_spawn"
    /\ scanNext = Len(files)
    /\ pc' = "fm_collect"
    /\ UNCHANGED <<tree, filters, files, methods, scanVars, searchVars,
                   endVars, clsVars>>

\* the entry of the tree that file i names
EntryOf(i) == CHOOSE e \in {tree[k] : k \in 1..Len(tree)} :
                  EntryPath(e) = files[i].Path

\* task i reads its file, scans it and sends its list
ScanFile(i) ==
    /\ scanPc[i] = "running"
    /\ Len(methodsChan) < chanCap(Len(files))
    /\ \E ok \in (IF EntryOf(i).IsDir THEN {FALSE} ELSE BOOLEAN) :
          /\ scanRead' = [scanRead EXCEPT ![i] = IF ok THEN "ok" ELSE "err"]
          /\ methodsChan' =
                Append(methodsChan,
                       fileMethods(files[i], EntryOf(i).Data, ok,
                                   filters.SkipPrivate))
    /\ scanPc' = [scanPc EXCEPT ![i] = "sent"]
    /\ UNCHANGED <<tree, filters, pc, files, methods, scanNext, scanWg,
                   methodsClosed, allMethods, searchVars, endVars, clsVars>>

\* the deferred wg.Done() of task i
ScanDone(i) ==
    /\ scanPc[i] = "sent"
    /\ scanPc' = [scanPc EXCEPT ![i] = "done"]
    /\ scanWg' = scanWg - 1
    /\ UNCHANGED <<tree, filters, pc, files, methods, scanNext, scanRead,
                   methodsChan, methodsClosed, allMethods, searchVars,
                   endVars, clsVars>>

\* the channel is closed without waiting for the tasks
waitOver_NoWait(wg) == TRUE

\* wg.Wait() returns
waitOver(wg) == wg = 0

\* the closing goroutine: wg.Wait(); close(methodsChan)
CloseMethodsChan ==
    /\ pc = "fm_collect"
    /\ ~methodsClosed
    /\ waitOver(scanWg)
    /\ methodsClosed' = TRUE
    /\ UNCHANGED <<tree, filters, pc, files, methods, scanNext, scanPc,
                   scanRead, scanWg, methodsChan, allMethods, searchVars,
                   endVars, clsVars>>

\* the collector appends every list twice
appendAll_Twice(all, ms) == all \o ms \o ms

\* the collector keeps the last list only
appendAll_Replace(all, ms) == ms

\* allMethods = append(allMethods, methods...)
appendAll(all, ms) == all \o ms

\* one iteration of `for methods := range methodsChan`
CollectMethods ==
    /\ pc = "fm_collect"
    /\ methodsChan # <<>>
    /\ allMethods' = appendAll(allMethods, Head(methodsChan))
    /\ methodsChan' = Tail(methodsChan)
    /\ UNCHANGED <<tree, filters, pc, files, methods, scanNext, scanPc,
                   scanRead, scanWg, methodsClosed, searchVars, endVars,
                   clsVars>>

\* the range loop ends on the closed, drained channel: FindMethods returns,
\* and AnalyzeMethodUsages is entered unless no definition was found
FindMethodsReturns ==
    /\ pc = "fm_collect"
    /\ methodsClosed
    /\ methodsChan = <<>>
    /\ methods' = allMethods
    /\ pc' = IF Len(methods') = 0 THEN "exit_nomethods" ELSE "am_spawn"
    /\ searchPc' = [i \in 1..Len(methods') |-> "new"]
    /\ searchOut' = [i \in 1..Len(methods') |-> NotSearched]
    /\ UNCHANGED <<tree, filters, files, scanVars, searchNext, searchWg,
                   resultsChan, resultsClosed, collected, endVars, clsVars>>

\* ---------------------------------------------------------------------------
\* AnalyzeMethodUsages
\* ---------------------------------------------------------------------------
\* one iteration of the spawning loop: wg.Add(1); go func(m)
SpawnSearch ==
    /\ pc = "am_spawn"
    /\ searchNext < Len(methods)
    /\ searchNext' = searchNext + 1
    /\ searchWg' = searchWg + 1
    /\ searchPc' = [searchPc EXCEPT ![searchNext + 1] = "running"]
    /\ UNCHANGED <<tree, filters, pc, files, methods, scanVars, searchOut,
                   resultsChan, resultsClosed, collected, endVars, clsVars>>

\* the loop is over: the closing goroutine is started and the collecting
\* loop entered
SearchSpawned ==
    /\ pc = "am_spawn"
    /\ searchNext = Len(methods)
    /\ pc' = "am_collect"
    /\ UNCHANGED <<tree, filters, files, methods, scanVars, searchVars,
                   endVars, clsVars>>

\* task i runs its search, parses and counts the matches and sends its record
SearchMethod(i) ==
    /\ searchPc[i] = "running"
    /\ Len(resultsChan) < chanCap(Len(methods))
    /\ \E failed \in BOOLEAN :
          LET found == searchMethodUsages(tree, methods[i].Name,
                                          filters.SkipTests, failed)
          IN  /\ searchOut' = [searchOut EXCEPT ![i] = found]
              /\ resultsChan' =
                    Append(resultsChan, searchResult(methods[i], found, filters))
    /\ searchPc' = [searchPc EXCEPT ![i] = "sent"]
    /\ UNCHANGED <<tree, filters, pc, files, methods, scanVars, searchNext,
                   searchWg, resultsClosed, collected, endVars, clsVars>>

\* the deferred wg.Done() of task i
SearchDone(i) ==
    /\ searchPc[i] = "sent"
    /\ searchPc' = [searchPc EXCEPT ![i] = "done"]
    /\ searchWg' = searchWg - 1
    /\ UNCHANGED <<tree, filters, pc, files, methods, scanVars, searchNext,
                   searchOut, resultsChan, resultsClosed, collected, endVars,
                   clsVars>>

\* the closing goroutine: wg.Wait(); close(resultsChan)
CloseResultsChan ==
    /\ pc = "am_collect"
    /\ ~resultsClosed
    /\ waitOver(searchWg)
    /\ resultsClosed' = TRUE
    /\ UNCHANGED <<tree, filters, pc, files, methods, scanVars, searchNext,
                   searchPc, searchOut, searchWg, resultsChan, collected,
                   endVars, clsVars>>

\* the collector drops the records without usages
appendResult_SkipEmpty(all, result) ==
    IF result.TotalUsages = 0 THEN all ELSE Append(all, result)

\* results = append(results, result)
appendResult(all, result) == Append(all, result)

\* one iteration of `for result := range resultsChan`
CollectResult ==
    /\ pc = "am_collect"
    /\ resultsChan # <<>>
    /\ collected' = appendResult(collected, Head(resultsChan))
    /\ resultsChan' = Tail(resultsChan)
    /\ UNCHANGED <<tree, filters, pc, files, methods, scanVars, searchNext,
                   searchPc, searchOut, searchWg, resultsClosed, endVars,
                   clsVars>>

\* the range loop ends on the closed, drained channel: AnalyzeMethodUsages
\* returns its records to RunE
AnalyzeReturns ==
    /\ pc = "am_collect"
    /\ resultsClosed
    /\ resultsChan = <<>>
    /\ results' = collected
    /\ pc' = "filter"
    /\ UNCHANGED <<tree, filters, files, methods, scanVars, searchVars,
                   usageBounds, sortFlags, clsVars>>

\* ---------------------------------------------------------------------------
\* RunE after AnalyzeMethodUsages
\* ---------------------------------------------------------------------------
\* values of --min-usages and --max-usages
UsageBoundValues == {-1, 0, 1}

\* values of --sort
SortKeys ==
    { SortByName, SortByFile, SortByUsages,
      <<"U", "s", "a", "g", "e", "s">>,
      <<"u", "s", "a", "g", "e", "s", "-", "d", "e", "s", "c">>, <<>> }

\* the filtering step of RunE
FilterStep ==
    /\ pc = "filter"
    /\ \E mn \in UsageBoundValues, mx \in UsageBoundValues :
          /\ usageBounds' = [read |-> TRUE, minUsages |-> mn, maxUsages |-> mx]
          /\ results' = IF mn >= 0 \/ mx >= 0
                        THEN FilterByUsageCount(results, mn, mx)
                        ELSE results
    /\ pc' = IF Len(results') = 0 THEN "exit_noresults" ELSE "sort"
    /\ UNCHANGED <<tree, filters, files, methods, scanVars, searchVars,
                   sortFlags, clsVars>>

\* the sorting step of RunE; the records then go to the printer
SortStep ==
    /\ pc = "sort"
    /\ \E key \in SortKeys, asc \in BOOLEAN :
          /\ sortFlags' = [read |-> TRUE, sortBy |-> key, asc |-> asc]
          /\ results' = SortResults(results, key, asc)
    /\ pc' = "done"
    /\ UNCHANGED <<tree, filters, files, methods, scanVars, searchVars,
                   usageBounds, clsVars>>

Next ==
    \/ RgMissing
    \/ ReadDirFails
    \/ ReadDirOk
    \/ SpawnScan
    \/ ScanSpawned
    \/ \E i \in DOMAIN scanPc : ScanFile(i)
    \/ \E i \in DOMAIN scanPc : ScanDone(i)
    \/ CloseMethodsChan
    \/ CollectMethods
    \/ FindMethodsReturns
    \/ SpawnSearch
    \/ SearchSpawned
    \/ \E i \in DOMAIN searchPc : SearchMethod(i)
    \/ \E i \in DOMAIN searchPc : SearchDone(i)
    \/ CloseResultsChan
    \/ CollectResult
    \/ AnalyzeReturns
    \/ FilterStep
    \/ SortStep

Spec == Init /\ [][Next]_vars

\* A run whose goroutines are scheduled: while some goroutine can take a step,
\* a step is taken (the Go scheduler runs every runnable goroutine, and every
\* file read and every search call returns).  The skip flags that do not
\* change the shape of a run are left at their defaults.
LiveFilters ==
    { f \in FileFilters : ~f.SkipImports /\ ~f.SkipDefinitions }

InitLive ==
    /\ tree \in Trees
    /\ filters \in LiveFilters
    /\ RunStart
    /\ clsLine = <<>>
    /\ clsName = <<>>
    /\ clsResult = Pending

\* the steps of the goroutine that runs FindMethods and AnalyzeMethodUsages
MainStep ==
    \/ SpawnScan
    \/ ScanSpawned
    \/ CollectMethods
    \/ FindMethodsReturns
    \/ SpawnSearch
    \/ SearchSpawned
    \/ CollectResult
    \/ AnalyzeReturns

\* the steps of the scan tasks and of the search tasks
ScanTaskStep == \E i \in DOMAIN scanPc : ScanFile(i) \/ ScanDone(i)

SearchTaskStep == \E i \in DOMAIN searchPc : SearchMethod(i) \/ SearchDone(i)

\* ENABLED <<SearchTaskStep>>_vars: some search task can send or finish
SearchTaskEnabled ==
    \E i \in DOMAIN searchPc :
        \/ searchPc[i] = "running" /\ Len(resultsChan) < chanCap(Len(methods))
        \/ searchPc[i] = "sent"

\* WF_vars(SearchTaskStep), with its enabling condition written out
SearchTaskFair ==
    []<>(~SearchTaskEnabled) \/ []<><<SearchTaskStep>>_vars

SpecLive ==
    /\ InitLive
    /\ [][Next]_vars
    /\ WF_vars(MainStep)
    /\ WF_vars(CloseMethodsChan)
    /\ WF_vars(CloseResultsChan)
    /\ WF_vars(ScanTaskStep)
    /\ SearchTaskFair

\* ---------------------------------------------------------------------------
\* The classifier on its own: classifyUsage applied to every line that can be
\* written with at most MaxTok of the tokens below
\* ---------------------------------------------------------------------------
LineTokens ==
    { <<"d", "e", "f", " ">>, <<"f">>, <<"f", "(">>, <<"(">>, <<" ">>,
      <<"#">>, <<"@">>, <<"x">>, <<"x", ".">>, <<"A">>,
      <<"s", "e", "l", "f", ".", "f", "(">>,
      <<"c", "l", "s", ".", "f", "(">>,
      <<"A", ".", "f", "(">> }

RECURSIVE Flatten(_)
Flatten(ts) == IF ts = <<>> THEN <<>> ELSE Head(ts) \o Flatten(Tail(ts))

ClassifierLines ==
    { Flatten(ts) : ts \in UNION { [1..n -> LineTokens] : n \in 0..MaxTok } }

ClassifierNames == { <<"f">> }

InitClassify ==
    /\ tree = <<>>
    /\ filters = DefaultFilters
    /\ RunStart
    /\ clsLine \in ClassifierLines
    /\ clsName \in ClassifierNames
    /\ clsResult = Pending

Classify ==
    /\ clsResult = Pending
    /\ clsResult' = classifyUsage(clsLine, clsName)
    /\ UNCHANGED <<tree, filters, pc, files, methods, scanVars, searchVars,
                   endVars, clsLine, clsName>>

NextClassify == Classify

SpecClassify == InitClassify /\ [][NextClassify]_vars

\* ---------------------------------------------------------------------------
\* The result pipeline on its own: the filtering and sorting steps of RunE
\* applied to every list of at most MaxRecs records of distinct definitions
\* ---------------------------------------------------------------------------
\* definitions that share a name, share a file, or share neither
ResultMethods ==
    { Method(<<"g">>, FileNames[1], 1), Method(<<"f">>, FileNames[1], 2),
      Method(<<"f">>, FileNames[3], 1), Method(<<"e">>, FileNames[3], 2) }

\* the first k usages of a definition: its own definition line, then a call
\* on the line after it
usagesOf(m, k) ==
    SubSeq(<< Usage(m.Filename \o <<":">> \o Itoa(m.LineNo) \o <<":", "5">>,
                    CallTypeDefinition,
                    <<"d", "e", "f", " ">> \o m.Name \o <<"(">>),
              Usage(m.Filename \o <<":">> \o Itoa(m.LineNo + 1) \o <<":", "1">>,
                    CallTypeFunction, m.Name \o <<"(">>) >>, 1, k)

\* the record of a definition with k usages
recordOf(m, k) ==
    MethodUsage(m, usagesOf(m, k), countByType(usagesOf(m, k), EmptyMap), k)

ResultRecords == { recordOf(m, k) : m \in ResultMethods, k \in 0..2 }

\* AnalyzeMethodUsages returns one record per definition, in any order
ResultLists ==
    UNION { { q \in [1..n -> ResultRecords] :
                \A i \in 1..n : \A j \in 1..n :
                    i # j => q[i].Method # q[j].Method } : n \in 0..MaxRecs }

\* AnalyzeMethodUsages has just returned its records to RunE
InitResults ==
    /\ tree = <<>>
    /\ filters = DefaultFilters
    /\ pc = "filter"
    /\ results \in ResultLists
    /\ collected = results
    /\ methods = [i \in 1..Len(results) |-> results[i].Method]
    /\ files = <<>>
    /\ scanNext = 0
    /\ scanPc = <<>>
    /\ scanRead = <<>>
    /\ scanWg = 0
    /\ methodsChan = <<>>
    /\ methodsClosed = TRUE
    /\ allMethods = methods
    /\ searchNext = Len(methods)
    /\ searchPc = [i \in 1..Len(methods) |-> "done"]
    /\ searchOut = [i \in 1..Len(methods) |-> NotSearched]
    /\ searchWg = 0
    /\ resultsChan = <<>>
    /\ resultsClosed = TRUE
    /\ usageBounds = BoundsUnread
    /\ sortFlags = SortUnread
    /\ clsLine = <<>>
    /\ clsName = <<>>
    /\ clsResult = Pending

NextResults ==
    \/ FilterStep
    \/ SortStep

SpecResults == InitResults /\ [][NextResults]_vars

\* ---------------------------------------------------------------------------
\* Runs on one file: RunE from its start to the return of
\* AnalyzeMethodUsages, on every tree that holds the one file a.py with at
\* most MaxLines of the lines below
\* ---------------------------------------------------------------------------
\* a definition of f and a commented-out one; decorator lines, bare, dotted
\* and with a trailing comment
LinePool ==
    { LnDefF,
      <<"#", " ">> \o LnDefF,
      LnDecorator,
      <<"@", "x", ".", "f">>,
      LnDecorator \o <<" ">> \o LnComment }

OneFileTrees ==
    { <<Entry(<<>>, FileNames[1], FALSE, Join(lines, NL))>> :
        lines \in UNION { [1..n -> LinePool] : n \in 1..MaxLines } }

\* --skip-definitions given or not, the other flags at their defaults
OneFileFilters ==
    { f \in FileFilters : ~f.SkipPrivate /\ ~f.SkipImports /\ f.SkipTests }

InitOneFile ==
    /\ tree \in OneFileTrees
    /\ filters \in OneFileFilters
    /\ RunStart
    /\ clsLine = <<>>
    /\ clsName = <<>>
    /\ clsResult = Pending

NextOneFile ==
    \/ ReadDirOk
    \/ SpawnScan
    \/ ScanSpawned
    \/ \E i \in DOMAIN scanPc : ScanFile(i)
    \/ \E i \in DOMAIN scanPc : ScanDone(i)
    \/ CloseMethodsChan
    \/ CollectMethods
    \/ FindMethodsReturns
    \/ SpawnSearch
    \/ SearchSpawned
    \/ \E i \in DOMAIN searchPc : SearchMethod(i)
    \/ \E i \in DOMAIN searchPc : SearchDone(i)
    \/ CloseResultsChan
    \/ CollectResult
    \/ AnalyzeReturns

SpecOneFile == InitOneFile /\ [][NextOneFile]_vars

\* ---------------------------------------------------------------------------
\* The walk on its own: RunE up to the return of ReadDir, on every tree of
\* at most MaxEntries of the entries below
\* ---------------------------------------------------------------------------
\* the entries in the order WalkDir visits them (each directory is read in
\* the order of the names); q.py is a directory
WalkEntries ==
    LET git == <<".", "g", "i", "t">>
        pkg == <<"p", "k", "g">>
        venv == <<"v", "e", "n", "v">>
        venv2 == <<"v", "e", "n", "v", "2">>
        lib == <<"l", "i", "b">>
    IN  << Entry(<<>>, git, TRUE, <<>>),
           Entry(<<git>>, <<"h", ".", "p", "y">>, FALSE, <<>>),
           Entry(<<>>, <<"a", ".", "p", "y">>, FALSE, <<>>),
           Entry(<<>>, <<"b", ".", "t", "x", "t">>, FALSE, <<>>),
           Entry(<<>>, pkg, TRUE, <<>>),
           Entry(<<pkg>>, <<"m", ".", "p", "y">>, FALSE, <<>>),
           Entry(<<pkg>>, venv, TRUE, <<>>),
           Entry(<<pkg, venv>>, <<"x", ".", "p", "y">>, FALSE, <<>>),
           Entry(<<>>, <<"q", ".", "p", "y">>, TRUE, <<>>),
           Entry(<<>>, venv, TRUE, <<>>),
           Entry(<<venv>>, lib, TRUE, <<>>),
           Entry(<<venv, lib>>, <<"y", ".", "p", "y">>, FALSE, <<>>),
           Entry(<<>>, venv2, TRUE, <<>>),
           Entry(<<venv2>>, <<"z", ".", "p", "y">>, FALSE, <<>>) >>

\* every entry of the set stands in a directory of the set
ParentsIn(S) ==
    \A k \in S :
        \/ WalkEntries[k].Dir = <<>>
        \/ \E j \in S : /\ WalkEntries[j].IsDir
                         /\ WalkEntries[j].Dir \o <<WalkEntries[j].Base>>
                               = WalkEntries[k].Dir

WalkTrees ==
    { [i \in 1..Cardinality(S) |-> WalkEntries[SetToSeq(S)[i]]] :
        S \in { T \in SUBSET (1..Len(WalkEntries)) :
                  Cardinality(T) <= MaxEntries /\ ParentsIn(T) } }

InitWalk ==
    /\ tree \in WalkTrees
    /\ filters = DefaultFilters
    /\ RunStart
    /\ clsLine = <<>>
    /\ clsName = <<>>
    /\ clsResult = Pending

NextWalk ==
    \/ RgMissing
    \/ ReadDirFails
    \/ ReadDirOk

SpecWalk == InitWalk /\ [][NextWalk]_vars

\* ---------------------------------------------------------------------------
\* One search task on its own: the search tool is an external command, and
\* the task parses whatever lines it prints.  The task for f of a.py:1 is
\* run on every output of at most MaxRaw of the lines below.
\* ---------------------------------------------------------------------------
\* lines of the form path:line:col:content, and lines with fewer fields
RawLines ==
    { FileNames[1] \o <<":", "2", ":", "1", ":">> \o LnCallF,
      FileNames[3] \o <<":", "1", ":", "6", ":", " ">> \o LnDefF,
      FileNames[1] \o <<":", "3", ":", "6", ":", " ">> \o LnSelfF
          \o <<" ", "#", ":">>,
      FileNames[1] \o <<":", "4", ":", "6", ":">> \o LnImport,
      FileNames[1] \o <<":", "2", ":">> \o LnCallF,
      <<>> }

RawOutputs == UNION { [1..n -> RawLines] : n \in 0..MaxRaw }

\* the flags ParseUsages reads
ParseFilters == { f \in FileFilters : ~f.SkipPrivate /\ f.SkipTests }

\* AnalyzeMethodUsages has started its one task and entered the collecting
\* loop
InitParse ==
    /\ tree = <<>>
    /\ filters \in ParseFilters
    /\ pc = "am_collect"
    /\ methods = <<Method(<<"f">>, FileNames[1], 1)>>
    /\ files = <<>>
    /\ scanNext = 0
    /\ scanPc = <<>>
    /\ scanRead = <<>>
    /\ scanWg = 0
    /\ methodsChan = <<>>
    /\ methodsClosed = TRUE
    /\ allMethods = methods
    /\ searchNext = 1
    /\ searchPc = <<"running">>
    /\ searchOut = <<NotSearched>>
    /\ searchWg = 1
    /\ resultsChan = <<>>
    /\ resultsClosed = FALSE
    /\ collected = <<>>
    /\ results = <<>>
    /\ usageBounds = BoundsUnread
    /\ sortFlags = SortUnread
    /\ clsLine = <<>>
    /\ clsName = <<>>
    /\ clsResult = Pending

\* task i, its search returning the lines rawUsages without error, parses
\* and counts them and sends its record
SearchRaw(i) ==
    /\ searchPc[i] = "running"
    /\ Len(resultsChan) < chanCap(Len(methods))
    /\ \E rawUsages \in RawOutputs :
          LET found == [lines |-> rawUsages, err |-> FALSE]
          IN  /\ searchOut' = [searchOut EXCEPT ![i] = found]
              /\ resultsChan' =
                    Append(resultsChan, searchResult(methods[i], found, filters))
    /\ searchPc' = [searchPc EXCEPT ![i] = "sent"]
    /\ UNCHANGED <<tree, filters, pc, files, methods, scanVars, searchNext,
                   searchWg, resultsClosed, collected, endVars, clsVars>>

NextParse ==
    \/ \E i \in DOMAIN searchPc : SearchRaw(i)
    \/ \E i \in DOMAIN searchPc : SearchDone(i)
    \/ CloseResultsChan
    \/ CollectResult
    \/ AnalyzeReturns

SpecParse == InitParse /\ [][NextParse]_vars

\* ---------------------------------------------------------------------------
\* Properties of the classifier (checked under SpecClassify)
\* ---------------------------------------------------------------------------
Classified == clsResult # Pending

Hash == <<"#">>

\* the line is a comment: its first character after the indentation is '#'
CommentOnly(line) == HasPrefix(TrimSpace(line), Hash)

\* the part of a line before its first '#' (the whole line if it has none)
BeforeHash(line) ==
    IF \E i \in 1..Len(line) : line[i] = "#"
    THEN SubSeq(line, 1, (CHOOSE i \in 1..Len(line) :
                             line[i] = "#" /\ \A j \in 1..(i - 1) : line[j] # "#") - 1)
    ELSE line

HasHash(line) == \E i \in 1..Len(line) : line[i] = "#"

\* the regular expression of one call type matches the text
Matches(type, s, name) ==
    CASE type = CallTypeDefinition -> MatchDefinition(s, name)
      [] type = CallTypeDecorator  -> MatchDecorator(s, name)
      [] type = CallTypeInstance   -> MatchInstance(s, name)
      [] type = CallTypeClass      -> MatchClass(s, name)
      [] type = CallTypeStatic     -> MatchStatic(s, name)
      [] type = CallTypeFunction   -> MatchFunction(s, name)

\* the order in which C1 says the patterns are tried
C1_Order ==
    << CallTypeDefinition, CallTypeDecorator, CallTypeInstance, CallTypeClass,
       CallTypeStatic, CallTypeFunction >>

C1_CallPatterns == {CallTypeInstance, CallTypeClass, CallTypeStatic, CallTypeFunction}

\* C1: classifyUsage returns 'no match' or exactly one of the six call types,
\* and a returned type is the type of the first pattern, in the order
\* definition, decorator, instance, class, static, function, that matches
\* the text the patterns are tried on; so a text matching the definition
\* pattern and a call pattern is classified definition, and one matching the
\* instance and the static pattern (and no earlier one) is classified instance.
C1_FirstMatchWins ==
    Classified =>
        LET s == BeforeHash(clsLine)
            hit(k) == Matches(C1_Order[k], s, clsName)
        IN  /\ clsResult = NoMatch
               \/ (clsResult.valid /\ clsResult.callType \in CallTypes)
            /\ clsResult.valid =>
                  \E k \in 1..Len(C1_Order) :
                      /\ C1_Order[k] = clsResult.callType
                      /\ hit(k)
                      /\ \A j \in 1..(k - 1) : ~hit(j)
            /\ (hit(1) /\ \E t \in C1_CallPatterns : Matches(t, s, clsName))
                  => clsResult = Matched(CallTypeDefinition)
            /\ (hit(3) /\ hit(5) /\ ~hit(1) /\ ~hit(2))
                  => clsResult = Matched(CallTypeInstance)

\* a line matching the instance and the static pattern was classified instance
C1_Witness ==
    /\ Classified
    /\ MatchInstance(clsLine, clsName)
    /\ MatchStatic(clsLine, clsName)
    /\ clsResult = Matched(CallTypeInstance)

\* what trying the patterns on a text gives
TryPatterns(s, name) == classifyLoop(buildCallPatterns(name), s, name, 1)

\* C3 as stated: with a '#' after some code, the patterns are tried on the
\* part before the '#', but when the name does not occur before the '#' the
\* full line, comment included, is still tried.
C3_FullLineStillTested ==
    (Classified /\ HasHash(clsLine) /\ ~CommentOnly(clsLine)) =>
        IF Contains(BeforeHash(clsLine), clsName)
        THEN clsResult = TryPatterns(BeforeHash(clsLine), clsName)
        ELSE clsResult = TryPatterns(clsLine, clsName)

\* C3 amended: with a '#' after some code, the patterns are tried on the part
\* before the '#', and when the name does not occur before the '#' the
\* result is 'no match' outright: the comment is never tried.
C3_NameOnlyInCommentNoMatch ==
    (Classified /\ HasHash(clsLine) /\ ~CommentOnly(clsLine)) =>
        IF Contains(BeforeHash(clsLine), clsName)
        THEN clsResult = TryPatterns(BeforeHash(clsLine), clsName)
        ELSE clsResult = NoMatch

\* a call that stands only in the trailing comment was reported unmatched
C3_Witness ==
    /\ Classified
    /\ HasHash(clsLine)
    /\ ~CommentOnly(clsLine)
    /\ ~Contains(BeforeHash(clsLine), clsName)
    /\ TryPatterns(clsLine, clsName).valid
    /\ clsResult = NoMatch

\* the name is called at position i with neither a dot nor an identifier
\* character before it
BareCallAt(s, i, name) ==
    /\ NameCallAt(s, i, name)
    /\ (i > 1 => (s[i - 1] # "." /\ ~IsWord(s[i - 1])))

\* C4 (on lines without any '#'): a line holding a bare call of the name
\* that matches none of the definition, decorator, instance, class and
\* static patterns is classified function, whatever else it holds.
C4_BareCallIsFunction ==
    ( /\ Classified
      /\ ~HasHash(clsLine)
      /\ \E i \in 1..Len(clsLine) : BareCallAt(clsLine, i, clsName)
      /\ \A t \in CallTypes \ {CallTypeFunction} : ~Matches(t, clsLine, clsName) )
        => clsResult = Matched(CallTypeFunction)

\* the receiver of the call at position i (the name starts at i, after a dot)
\* is the identifier w
ReceiverIs(s, i, w) ==
    /\ HasAt(s, i - 1 - Len(w), w \o <<".">>)
    /\ WordStartAt(s, i - 1 - Len(w))

\* position i holds a call of the name qualified by the receiver w
QualifiedCall(s, w, name) ==
    \E i \in 1..Len(s) : NameCallAt(s, i, name) /\ ReceiverIs(s, i, w)

\* position i holds a call of the name on a receiver that starts at position
\* a with an upper-case letter
UpperCall(s, name) ==
    \E i \in 1..Len(s) : \E a \in 1..(i - 2) :
        /\ NameCallAt(s, i, name)
        /\ s[i - 1] = "."
        /\ IsUpper(s[a])
        /\ WordStartAt(s, a)
        /\ \A k \in a..(i - 2) : IsWord(s[k])

\* the name occurs once on the line, called on a receiver that starts with a
\* lower-case letter and is neither self nor cls
LowerCallOnly(s, name) ==
    /\ Cardinality({i \in 1..Len(s) : HasAt(s, i, name)}) = 1
    /\ \E i \in 1..Len(s) : \E a \in 1..(i - 2) :
          /\ NameCallAt(s, i, name)
          /\ s[i - 1] = "."
          /\ s[a] \in LowerChars
          /\ WordStartAt(s, a)
          /\ \A k \in a..(i - 2) : IsWord(s[k])
          /\ SubSeq(s, a, i - 2) \notin {<<"s", "e", "l", "f">>, <<"c", "l", "s">>}

Self == <<"s", "e", "l", "f">>

Cls == <<"c", "l", "s">>

\* the line is neither a definition nor a decorator line of the name
PlainLine(s, name) == ~MatchDefinition(s, name) /\ ~MatchDecorator(s, name)

SkipSettings ==
    [SkipPrivate : BOOLEAN, SkipImports : BOOLEAN, SkipTests : BOOLEAN,
     SkipDefinitions : BOOLEAN]

\* a raw match of the search tool on the first line of file a.py
RawMatch(col, content) ==
    FileNames[1] \o <<":", "1", ":">> \o Itoa(col) \o <<":">> \o content

\* C6: a line whose first character after the indentation is '#' is
\* classified 'no match' for the symbol name, and ParseUsages makes no Usage
\* of a raw match with that line (at column 1 or at a column the search tool
\* reports), under every filter setting and whichever file defines the symbol.
C6_NoUsageForCommentLine ==
    (Classified /\ CommentOnly(clsLine)) =>
        /\ clsResult = NoMatch
        /\ \A f \in SkipSettings : \A k \in 1..2 :
           \A col \in MatchCols(clsLine, clsName) \cup {1} :
              ParseUsages(<<RawMatch(col, clsLine)>>, clsName, f, FileNames[k])
                  = <<>>

\* a comment line that the search tool reports was classified 'no match'
C6_Witness ==
    /\ Classified
    /\ CommentOnly(clsLine)
    /\ MatchSearch(clsLine, clsName)
    /\ clsResult = NoMatch

\* ---------------------------------------------------------------------------
\* Properties of a run (checked under Spec)
\* ---------------------------------------------------------------------------
Range(q) == {q[k] : k \in 1..Len(q)}

\* the records the search tasks have sent so far
SentRecords == Range(resultsChan) \cup Range(collected)

\* search task i has run its search
Searched(i) == searchPc[i] \in {"sent", "done"}

\* the record that task i sent
RecordOf(i) == CHOOSE r \in SentRecords : r.Method = methods[i]

\* the raw match was made a Usage of the record
Kept(raw, record) ==
    LET parts == SplitN(raw, ":", 4)
    IN  \E k \in 1..Len(record.Usages) :
            record.Usages[k].Location
                = parts[1] \o <<":">> \o parts[2] \o <<":">> \o parts[3]

\* the raw match has four fields and its line is classified definition
DefinitionMatch(raw, name) ==
    /\ Len(SplitN(raw, ":", 4)) = 4
    /\ classifyUsage(SplitN(raw, ":", 4)[4], name) = Matched(CallTypeDefinition)

\* C2: with skipDefinitions set, a match classified definition is dropped
\* exactly when its file is the defining file of the symbol, and one found
\* in another file is kept; with skipDefinitions unset none is dropped.
C2_OwnDefinitionDropped ==
    \A i \in DOMAIN searchPc :
        (Searched(i) /\ ~searchOut[i].err) =>
            \A k \in 1..Len(searchOut[i].lines) :
                LET raw == searchOut[i].lines[k]
                IN  DefinitionMatch(raw, methods[i].Name) =>
                        ( Kept(raw, RecordOf(i))
                            <=> ~( /\ filters.SkipDefinitions
                                   /\ SplitN(raw, ":", 4)[1] = methods[i].Filename ) )

RECURSIVE SumOver(_, _)
\* the sum of the values of a map over a set of its keys
SumOver(m, keys) ==
    IF keys = {} THEN 0
    ELSE LET k == CHOOSE x \in keys : TRUE
         IN  m[k] + SumOver(m, keys \ {k})

\* the record is consistent: its total, the length of its usages and the sum
\* of its counts agree, and each count is that of the usages of its type
Consistent(r) ==
    /\ r.TotalUsages = Len(r.Usages)
    /\ r.TotalUsages = SumOver(r.UsagesByType, DOMAIN r.UsagesByType)
    /\ \A t \in DOMAIN r.UsagesByType :
          /\ \E k \in 1..Len(r.Usages) : r.Usages[k].CallType = t
          /\ r.UsagesByType[t]
                = Cardinality({k \in 1..Len(r.Usages) : r.Usages[k].CallType = t})

\* C7: every record of AnalyzeMethodUsages, whether its search succeeded,
\* found nothing or failed, has TotalUsages = len(Usages) = the sum of
\* UsagesByType, and every key of UsagesByType is the type of one of its usages.
C7_TotalsConsistent ==
    \A r \in SentRecords \cup Range(results) : Consistent(r)

\* the run returned a record with usages of two types and a record of a
\* failed search
C7_Witness ==
    /\ pc = "filter"
    /\ \E r \in Range(results) :
          r.TotalUsages >= 2 /\ Cardinality(DOMAIN r.UsagesByType) >= 2
    /\ \E i \in DOMAIN searchOut : searchOut[i].err

AnalyzeReturned == pc \in {"filter", "sort", "done", "exit_noresults"}

\* AnalyzeMethodUsages has just returned
AnalyzeJustReturned == pc = "filter"

\* the record of a search that is run on its own and succeeds
OwnRecord(m) ==
    LET usages == ParseUsages(searchMethodUsages(tree, m.Name,
                                                 filters.SkipTests, FALSE).lines,
                              m.Name, filters, m.Filename)
    IN  [Method |-> m, Usages |-> usages, TotalUsages |-> Len(usages)]

\* C8: AnalyzeMethodUsages returns exactly one record per input method; a
\* failed search and a search without matches both give a record without
\* usages and with TotalUsages 0; and the record of every other method is
\* what its own search gives, whatever failed elsewhere.
C8_OneRecordPerMethod ==
    AnalyzeJustReturned =>
        /\ Len(collected) = Len(methods)
        /\ \A i \in 1..Len(methods) :
              /\ Cardinality({k \in 1..Len(collected) :
                                  collected[k].Method = methods[i]}) = 1
              /\ \A k \in 1..Len(collected) :
                    collected[k].Method = methods[i] =>
                        IF searchOut[i].err \/ searchOut[i].lines = <<>>
                        THEN /\ collected[k].Usages = <<>>
                             /\ collected[k].TotalUsages = 0
                             /\ DOMAIN collected[k].UsagesByType = {}
                        ELSE /\ collected[k].Usages = OwnRecord(methods[i]).Usages
                             /\ collected[k].TotalUsages
                                   = OwnRecord(methods[i]).TotalUsages

\* a run returned with one search failed and another one that found usages
C8_Witness ==
    /\ AnalyzeJustReturned
    /\ \E i \in DOMAIN searchOut : searchOut[i].err
    /\ \E i \in DOMAIN searchOut :
          /\ ~searchOut[i].err
          /\ \E k \in 1..Len(collected) :
                collected[k].Method = methods[i] /\ collected[k].TotalUsages > 0

FindMethodsReturned ==
    pc \in {"am_spawn", "am_collect", "filter", "sort", "done",
            "exit_nomethods", "exit_noresults"}

\* FindMethods has just returned
FindMethodsJustReturned == pc \in {"am_spawn", "exit_nomethods"} /\ searchNext = 0

\* the definitions of file i, scanned on its own
OwnMethods(i) == scanLines(Split(EntryOf(i).Data, "\n"), 0, files[i].Path,
                           filters.SkipPrivate)

\* C9: a file whose read fails contributes no definition, and FindMethods
\* still returns every definition of every file that was read.
C9_UnreadableFileSkipped ==
    FindMethodsJustReturned =>
        /\ \A i \in 1..Len(files) :
              scanRead[i] = "ok" => Range(OwnMethods(i)) \subseteq Range(methods)
        /\ \A k \in 1..Len(methods) :
              \E i \in 1..Len(files) :
                  /\ scanRead[i] = "ok"
                  /\ methods[k].Filename = files[i].Path
                  /\ methods[k] \in Range(OwnMethods(i))
        /\ \A k, l \in 1..Len(methods) : methods[k] = methods[l] => k = l

\* FindMethods returned the definitions of one file while the read of another
\* file, which holds a definition, failed
C9_Witness ==
    /\ FindMethodsJustReturned
    /\ methods # <<>>
    /\ \E i \in 1..Len(files) : scanRead[i] = "err" /\ OwnMethods(i) # <<>>

\* C10: no search task starts before every scan task has finished and
\* FindMethods has returned the merged list, and filtering and sorting start
\* only after every search task has finished and AnalyzeMethodUsages has
\* returned.
C10_PhasesDoNotOverlap ==
    /\ (\E i \in DOMAIN searchPc : searchPc[i] # "new") =>
          /\ FindMethodsReturned
          /\ \A j \in DOMAIN scanPc : scanPc[j] = "done"
          /\ methodsChan = <<>>
          /\ methods = allMethods
    /\ pc \in {"am_spawn", "am_collect"} =>
          \A j \in DOMAIN scanPc : scanPc[j] = "done"
    /\ (pc \in {"filter", "sort"} \/ usageBounds.read \/ sortFlags.read) =>
          /\ AnalyzeReturned
          /\ \A i \in DOMAIN searchPc : searchPc[i] = "done"
          /\ \A j \in DOMAIN scanPc : scanPc[j] = "done"
          /\ resultsChan = <<>>
          /\ Len(collected) = Len(methods)

\* the records of two search tasks over two scanned files reached the sort
C10_Witness ==
    /\ pc = "sort"
    /\ Len(files) >= 2
    /\ Len(methods) >= 2

\* ---------------------------------------------------------------------------
\* Properties of a scheduled run (checked under SpecLive)
\* ---------------------------------------------------------------------------
\* the tasks of a phase that have sent their result
Sent(taskPc) == {i \in DOMAIN taskPc : taskPc[i] \in {"sent", "done"}}

\* no task that is about to send finds its channel full
NoSendBlocks ==
    /\ \A i \in DOMAIN scanPc :
          scanPc[i] = "running" => Len(methodsChan) < chanCap(Len(files))
    /\ \A i \in DOMAIN searchPc :
          searchPc[i] = "running" => Len(resultsChan) < chanCap(Len(methods))

\* a channel is closed only once every task of its phase is done
ClosedAfterAllDone ==
    /\ methodsClosed => (scanNext = Len(files)
                            /\ \A i \in DOMAIN scanPc : scanPc[i] = "done")
    /\ resultsClosed => (searchNext = Len(methods)
                            /\ \A i \in DOMAIN searchPc : searchPc[i] = "done")

\* every search task that has sent has one record in the channel or in the
\* collector's list, and a phase returns only with nothing left in its
\* channel and every task done
OneResultEach ==
    /\ Len(resultsChan) + Len(collected) = Cardinality(Sent(searchPc))
    /\ FindMethodsReturned =>
          (methodsChan = <<>> /\ \A i \in DOMAIN scanPc : scanPc[i] = "done")
    /\ AnalyzeReturned =>
          (resultsChan = <<>> /\ Len(collected) = Len(methods))

\* C11: once started, each phase drains to completion: no send blocks, every
\* task sends one result and finishes, the channel is closed only after all
\* tasks are done, and the collecting loop ends, so FindMethods and
\* AnalyzeMethodUsages return, with the results of every task.
C11_RunDrains ==
    /\ [](NoSendBlocks /\ ClosedAfterAllDone /\ OneResultEach)
    /\ (pc = "fm_spawn") ~> FindMethodsReturned
    /\ (pc = "am_spawn") ~> AnalyzeReturned

\* both phases have run with two tasks each and the run is past them
C11_Witness ==
    /\ AnalyzeReturned
    /\ Len(files) = 2
    /\ Len(methods) = 2
    /\ \A i \in DOMAIN searchPc : searchPc[i] = "done"
    /\ Len(collected) = 2

\* ---------------------------------------------------------------------------
\* Properties of the result pipeline after a run (checked under Spec)
\* ---------------------------------------------------------------------------
\* the filtering step of RunE for given bounds
filtered(records, bounds) ==
    IF bounds.minUsages >= 0 \/ bounds.maxUsages >= 0
    THEN FilterByUsageCount(records, bounds.minUsages, bounds.maxUsages)
    ELSE records

\* the records of a run in an order that no interleaving decides: by file and
\* line of their definitions (no two records share both)
ArrivalFree(records) == SortResults(records, SortByFile, TRUE)

\* C12: for a fixed tree and configuration the sequence of records after
\* SortResults is the same under every interleaving: it is what filtering and
\* sorting give when the records arrive in the order of their definitions.
C12_SortRestoresOrder ==
    pc = "done" =>
        results = SortResults(filtered(ArrivalFree(collected), usageBounds),
                              sortFlags.sortBy, sortFlags.asc)

\* ---------------------------------------------------------------------------
\* Properties of the sorting step (checked under SpecResults)
\* ---------------------------------------------------------------------------
\* the sorting step of RunE is being taken
Sorting == pc = "sort" /\ pc' = "done"

\* the key a --sort value selects
keyOf(sortBy) ==
    IF ToLower(sortBy) \in {SortByName, SortByUsages} THEN ToLower(sortBy)
    ELSE SortByFile

\* two records have the same primary key
SamePrimary(a, b, key) ==
    CASE key = SortByName   -> a.Method.Name = b.Method.Name
      [] key = SortByUsages -> a.TotalUsages = b.TotalUsages
      [] key = SortByFile   -> a.Method.Filename = b.Method.Filename

\* a <= b on symbol names
NameLeq(a, b) == ~StrLess(b.Method.Name, a.Method.Name)

\* the position of a record in a list of records of distinct definitions
Pos(q, r) == CHOOSE k \in 1..Len(q) : q[k] = r

RECURSIVE Reverse(_)
Reverse(q) == IF q = <<>> THEN <<>> ELSE Reverse(Tail(q)) \o <<Head(q)>>

\* no two records of the list compare equal under the key
NoTies(q, sortBy) ==
    \A i \in 1..Len(q) : \A j \in 1..Len(q) :
        i # j => (less(q[i], q[j], sortBy) \/ less(q[j], q[i], sortBy))

\* C14: sorting the sorted list again with the same key and direction
\* changes nothing, and when no two records compare equal under the key the
\* descending sort gives the reverse of the ascending sort.
C14_SortIdempotent ==
    [][ Sorting =>
          LET key == sortFlags'.sortBy
          IN  /\ SortResults(results', key, sortFlags'.asc) = results'
              /\ NoTies(results, key) =>
                    SortResults(results, key, FALSE)
                        = Reverse(SortResults(results, key, TRUE)) ]_vars

\* the list p holds the records of the list q, each once
Permutation(p, q) ==
    /\ Len(p) = Len(q)
    /\ \A k \in 1..Len(q) : \E i \in 1..Len(p) : p[i] = q[k]

\* a stands at or before b in the ascending order of the key
KeyLeq(a, b, key) ==
    CASE key = SortByName   -> ~StrLess(b.Method.Name, a.Method.Name)
      [] key = SortByUsages -> a.TotalUsages <= b.TotalUsages
      [] key = SortByFile   ->
            \/ StrLess(a.Method.Filename, b.Method.Filename)
            \/ /\ a.Method.Filename = b.Method.Filename
               /\ a.Method.LineNo <= b.Method.LineNo

\* values of --sort: usages in another case, and two that name no key
UsagesCapital == <<"U", "s", "a", "g", "e", "s">>

UsagesDesc == <<"u", "s", "a", "g", "e", "s", "-", "d", "e", "s", "c">>

JustFiltered == pc \in {"sort", "exit_noresults"}

\* the record is within the bounds: both inclusive, -1 for none
Within(r, minUsages, maxUsages) ==
    /\ minUsages < 0 \/ r.TotalUsages >= minUsages
    /\ maxUsages < 0 \/ r.TotalUsages <= maxUsages

\* C16: FilterByUsageCount keeps a record iff (minUsages < 0 or TotalUsages
\* >= minUsages) and (maxUsages < 0 or TotalUsages <= maxUsages); with both
\* bounds 0 it keeps exactly the records with TotalUsages 0.
C16_KeptIffWithinBounds ==
    JustFiltered =>
        LET mn == usageBounds.minUsages
            mx == usageBounds.maxUsages
        IN  /\ results = FilterByUsageCount(collected, mn, mx)
            /\ \A r \in Range(collected) :
                  r \in Range(results) <=> Within(r, mn, mx)
            /\ (mn = 0 /\ mx = 0) =>
                  Range(results) = {r \in Range(collected) : r.TotalUsages = 0}

\* with both bounds 0, a record without usages was kept and one with usages
\* was dropped
C16_Witness ==
    /\ JustFiltered
    /\ usageBounds.minUsages = 0
    /\ usageBounds.maxUsages = 0
    /\ Len(results) = 1
    /\ Len(collected) = 3
    /\ results[1].TotalUsages = 0

RECURSIVE IsSubsequence(_, _)
\* p is q with some of its elements left out
IsSubsequence(p, q) ==
    IF p = <<>> THEN TRUE
    ELSE IF q = <<>> THEN FALSE
    ELSE IF Head(p) = Head(q) THEN IsSubsequence(Tail(p), Tail(q))
    ELSE IsSubsequence(p, Tail(q))

\* C17: the output of FilterByUsageCount is a subsequence of its input:
\* every surviving record is an input record, unchanged, the relative order
\* is kept and no record is duplicated or invented.
C17_FilterKeepsWholeRecords ==
    JustFiltered =>
        /\ IsSubsequence(results, collected)
        /\ \A i \in 1..Len(results) : \A j \in 1..Len(results) :
              i # j => results[i] # results[j]
        /\ \A i \in 1..Len(results) :
              results[i].TotalUsages = Len(results[i].Usages)

\* the middle record of three was dropped, the other two kept in their order
C17_Witness ==
    /\ JustFiltered
    /\ Len(collected) = 3
    /\ results = <<collected[1], collected[3]>>
    /\ collected[1].TotalUsages > 0

\* ---------------------------------------------------------------------------
\* Properties of the definition scan (checked under Spec)
\* ---------------------------------------------------------------------------
\* the symbol names the example files define
DefinedNames == { <<"f">>, <<"_", "g">> }

\* the lines of file i
LinesOf(i) == Split(EntryOf(i).Data, "\n")

\* line n of file i is `def name(`, possibly indented
DefLine(i, n, name) ==
    /\ n \in 1..Len(LinesOf(i))
    /\ MatchDefinition(LinesOf(i)[n], name)

\* C18: for every file that was read and every line N of it of the form
\* `def foo(`, indented or not, FindMethods returns a Method with Name foo,
\* the path of the file and LineNo N, unless skipPrivate excludes foo.
C18_DefinitionAtLineN ==
    FindMethodsJustReturned =>
        \A i \in 1..Len(files) : \A n \in 1..Len(LinesOf(i)) :
            \A name \in DefinedNames :
                ( /\ scanRead[i] = "ok"
                  /\ DefLine(i, n, name)
                  /\ ~(filters.SkipPrivate /\ HasPrefix(name, <<"_">>)) )
                    => Method(name, files[i].Path, n) \in Range(methods)

\* an indented definition on line 2 of a file that starts with an empty line
\* was returned with LineNo 2
C18_Witness ==
    /\ FindMethodsJustReturned
    /\ \E i \in 1..Len(files) :
          /\ scanRead[i] = "ok"
          /\ LinesOf(i)[1] = <<>>
          /\ DefLine(i, 2, <<"_", "g">>)
          /\ HasPrefix(LinesOf(i)[2], <<" ">>)
          /\ Method(<<"_", "g">>, files[i].Path, 2) \in Range(methods)

\* what FindMethods gives without skipPrivate, for the same outcomes of the
\* reads: the definitions of every file that was read
AllDefinitions ==
    UNION { Range(fileMethods(files[i], EntryOf(i).Data, scanRead[i] = "ok",
                              FALSE)) : i \in 1..Len(files) }

\* the symbol name starts with an underscore
Underscored(m) == Len(m.Name) > 0 /\ m.Name[1] = "_"

\* C19: with SkipPrivate set, FindMethods returns exactly the definitions of
\* the run without it whose name does not start with '_', each with its
\* name, file and line number unchanged and none twice; without SkipPrivate
\* it returns all of them.
C19_PrivatePartition ==
    FindMethodsJustReturned =>
        /\ Range(methods) =
              IF filters.SkipPrivate
              THEN {m \in AllDefinitions : ~Underscored(m)}
              ELSE AllDefinitions
        /\ filters.SkipPrivate => \A k \in 1..Len(methods) : ~Underscored(methods[k])
        /\ Cardinality(Range(methods)) = Len(methods)

\* with SkipPrivate set, _g of a file that was read was left out and f of
\* another file was returned
C19_Witness ==
    /\ FindMethodsJustReturned
    /\ filters.SkipPrivate
    /\ \E m \in AllDefinitions : Underscored(m)
    /\ Len(methods) = 1
    /\ methods[1].Name = <<"f">>

\* ---------------------------------------------------------------------------
\* Properties of the records of a run (checked under Spec)
\* ---------------------------------------------------------------------------
\* the places <<entry, line>> of the tree whose text holds the name
Occurrences(name) ==
    UNION { { <<k, n>> : n \in { x \in 1..Len(Split(tree[k].Data, "\n")) :
                                    Contains(Split(tree[k].Data, "\n")[x], name) } } :
            k \in 1..Len(tree) }

\* the file name is one the search leaves out with --skip-tests
TestFile(base) ==
    \/ HasPrefix(base, <<"t", "e", "s", "t", "_">>)
    \/ HasSuffix(base, <<"_", "t", "e", "s", "t", ".", "p", "y">>)

\* method m is written `def name(` and its name stands nowhere else in the
\* tree; k is the entry of its file
UnusedDefinition(m, k) ==
    /\ EntryPath(tree[k]) = m.Filename
    /\ MatchDefinition(Split(tree[k].Data, "\n")[m.LineNo], m.Name)
    /\ Occurrences(m.Name) = {<<k, m.LineNo>>}
    /\ Cardinality({c \in 1..Len(Split(tree[k].Data, "\n")[m.LineNo]) :
                      HasAt(Split(tree[k].Data, "\n")[m.LineNo], c, m.Name)}) = 1

\* C20: with skipDefinitions unset and the defining file not left out by
\* skipTests, a definition `def name(` whose name stands nowhere else in the
\* tree gets a record with exactly one usage: its own definition line, at
\* path:line:col, classified definition; TotalUsages is 1 and UsagesByType
\* is {definition: 1}.
C20_UnusedShowsOneUsage ==
    AnalyzeJustReturned =>
        \A i \in 1..Len(methods) : \A k \in 1..Len(tree) :
            LET m == methods[i]
                line == Split(tree[k].Data, "\n")[m.LineNo]
                col == CHOOSE c \in 1..Len(line) : HasAt(line, c, m.Name)
            IN  ( /\ ~filters.SkipDefinitions
                  /\ ~searchOut[i].err
                  /\ UnusedDefinition(m, k)
                  /\ ~(filters.SkipTests /\ TestFile(tree[k].Base)) )
                    => \E r \in Range(results) :
                          /\ r.Method = m
                          /\ r.TotalUsages = 1
                          /\ r.Usages =
                                << Usage(m.Filename \o <<":">> \o Itoa(m.LineNo)
                                             \o <<":">> \o Itoa(col),
                                         CallTypeDefinition, TrimSpace(line)) >>
                          /\ DOMAIN r.UsagesByType = {CallTypeDefinition}
                          /\ r.UsagesByType[CallTypeDefinition] = 1

\* _g, defined in test_b.py and called nowhere, has a record with one usage
C20_Witness ==
    /\ AnalyzeJustReturned
    /\ ~filters.SkipDefinitions
    /\ \E i \in 1..Len(methods) : \E k \in 1..Len(tree) :
          /\ UnusedDefinition(methods[i], k)
          /\ ~searchOut[i].err
          /\ \E r \in Range(results) : r.Method = methods[i] /\ r.TotalUsages = 1

\* ---------------------------------------------------------------------------
\* The end-to-end scenario (checked under Spec)
\* ---------------------------------------------------------------------------
\* the tree holds one file: it defines f, calls it once as f( and once as
\* self.f(
OneFileScenario ==
    /\ Len(tree) = 1
    /\ tree[1].Data = Join(<<LnDefF, LnCallF, LnSelfF>>, NL)

\* the counts {function: 1, instance: 1}
OneFunctionOneInstance ==
    [t \in {CallTypeFunction, CallTypeInstance} |-> 1]

\* C21: for a tree with one file that defines the symbol and calls it once
\* bare and once on self, a run with skipDefinitions set, whose read and
\* search succeed, yields exactly one record, with TotalUsages 2 and
\* UsagesByType {function: 1, instance: 1}: the definition line is excluded.
C21_ScenarioCountsTwo ==
    ( /\ AnalyzeJustReturned
      /\ OneFileScenario
      /\ filters.SkipDefinitions
      /\ scanRead[1] = "ok"
      /\ ~searchOut[1].err )
        => /\ Len(results) = 1
           /\ results[1].TotalUsages = 2
           /\ results[1].UsagesByType = OneFunctionOneInstance

\* ---------------------------------------------------------------------------
\* Properties of the parsing of raw matches (checked under SpecParse)
\* ---------------------------------------------------------------------------
\* the positions of the colons of a raw line, in ascending order
Colons(raw) == SetToSeq({i \in 1..Len(raw) : raw[i] = ":"})

\* the raw line has at least four colon-delimited fields
FourFields(raw) == Len(Colons(raw)) >= 3

\* the Usages made of one raw line on its own
UsagesOfLine(raw) ==
    ParseUsages(<<raw>>, methods[1].Name, filters, methods[1].Filename)

RECURSIVE UsagesLineByLine(_)
\* the Usages of each raw line on its own, one after the other
UsagesLineByLine(rawUsages) ==
    IF rawUsages = <<>> THEN <<>>
    ELSE UsagesOfLine(Head(rawUsages)) \o UsagesLineByLine(Tail(rawUsages))

\* C22: a raw line with fewer than four colon-delimited fields gives no
\* Usage and no error, and leaves the Usages of the other raw lines as they
\* are (the single empty line of an empty output included); every retained
\* line gives one Usage whose location is its first three fields joined as
\* path:line:col and whose context is its trimmed fourth field.
C22_MalformedLinesDropped ==
    \A i \in DOMAIN searchPc :
        searchPc[i] = "sent" =>
            LET rawUsages == searchOut[i].lines
                record == RecordOf(i)
            IN  /\ ~searchOut[i].err
                /\ record.Usages = UsagesLineByLine(rawUsages)
                /\ record.Usages
                      = UsagesLineByLine(SelectSeq(rawUsages, FourFields))
                /\ record.TotalUsages = Len(record.Usages)
                /\ \A k \in 1..Len(rawUsages) :
                      LET raw == rawUsages[k]
                          c == Colons(raw)
                          made == UsagesOfLine(raw)
                      IN  /\ ~FourFields(raw) => made = <<>>
                          /\ made # <<>> =>
                                /\ Len(made) = 1
                                /\ made[1].Location = SubSeq(raw, 1, c[3] - 1)
                                /\ made[1].Context
                                      = TrimSpace(SubSeq(raw, c[3] + 1, Len(raw)))
                /\ rawUsages = <<<<>>>> => record.Usages = <<>>

\* of three raw lines the middle one, with three fields, was dropped and the
\* two around it were made Usages
C22_Witness ==
    /\ Searched(1)
    /\ Len(searchOut[1].lines) = 3
    /\ FourFields(searchOut[1].lines[1])
    /\ ~FourFields(searchOut[1].lines[2])
    /\ searchOut[1].lines[2] # <<>>
    /\ FourFields(searchOut[1].lines[3])
    /\ Len(RecordOf(1).Usages) = 2
    /\ RecordOf(1).Usages[2].Context = LnSelfF \o <<" ", "#", ":">>

\* ---------------------------------------------------------------------------
\* Properties of the walk (checked under SpecWalk)
\* ---------------------------------------------------------------------------
\* the directory names the walk does not enter
SkippedNames ==
    { <<".", "g", "i", "t">>,
      <<"_", "_", "p", "y", "c", "a", "c", "h", "e", "_", "_">>,
      <<".", "v", "e", "n", "v">>,
      <<"v", "e", "n", "v">>,
      <<"n", "o", "d", "e", "_", "m", "o", "d", "u", "l", "e", "s">> }

\* the entry is a directory with one of these names, or lies beneath one
Skipped(e) == e.IsDir /\ e.Base \in SkippedNames

Beneath(e) == \E k \in 1..Len(e.Dir) : e.Dir[k] \in SkippedNames

EndsInPy(path) ==
    /\ Len(path) >= 3
    /\ SubSeq(path, Len(path) - 2, Len(path)) = <<".", "p", "y">>

\* the paths of the entries 1..n of the tree that are neither skipped nor
\* beneath a skipped directory and end in .py
Eligible(n) ==
    { EntryPath(tree[k]) : k \in { j \in 1..n : /\ ~Skipped(tree[j])
                                                 /\ ~Beneath(tree[j])
                                                 /\ EndsInPy(EntryPath(tree[j])) } }

Paths(fs) == { fs[k].Path : k \in 1..Len(fs) }

\* ReadDir has returned without error
WalkedOk == pc \in {"fm_spawn", "exit_nofiles"}

\* C23: ReadDir returns no entry beneath a directory named .git,
\* __pycache__, .venv, venv or node_modules, returns every file outside such
\* directories whose path ends in .py, each once, and nothing whose path does
\* not end in .py; and when the walk meets an error it ends there: the error
\* reaches the caller, which stops, and no entry after the failing one has
\* been visited.
C23_WalkPrunesAndAborts ==
    /\ [](WalkedOk =>
            /\ Paths(files) = Eligible(Len(tree))
            /\ Cardinality(Paths(files)) = Len(files)
            /\ \A k \in 1..Len(tree) :
                  (~tree[k].IsDir /\ ~Beneath(tree[k])
                       /\ EndsInPy(EntryPath(tree[k])))
                      => EntryPath(tree[k]) \in Paths(files)
            /\ \A k \in 1..Len(tree) :
                  Beneath(tree[k]) => EntryPath(tree[k]) \notin Paths(files)
            /\ \A k \in 1..Len(files) : EndsInPy(files[k].Path))
    /\ [][ (pc = "start" /\ pc' = "exit_readdir") =>
              \E n \in 0..Len(tree) :
                  /\ n > 0 => (tree[n].IsDir /\ ~Skipped(tree[n])
                                   /\ ~Beneath(tree[n]))
                  /\ Paths(files') = Eligible(n) ]_vars
    /\ [](pc = "exit_readdir" => (scanNext = 0 /\ methods = <<>>))

\* the walk returned a.py and skipped h.py beneath .git
C23_Witness ==
    /\ WalkedOk
    /\ \E k \in 1..Len(tree) : Beneath(tree[k]) /\ EndsInPy(EntryPath(tree[k]))
    /\ \E k \in 1..Len(tree) : \E j \in 1..Len(tree) :
          /\ tree[k].Dir = <<>>
          /\ tree[j].Dir # <<>>
          /\ ~Beneath(tree[j])
          /\ {EntryPath(tree[k]), EntryPath(tree[j])} \subseteq Paths(files)

\* ---------------------------------------------------------------------------
\* Properties of the order of the call types (checked under SpecClassify)
\* ---------------------------------------------------------------------------
\* the types of the patterns in the order classifyUsage tries them
PatternTypes(name) ==
    [k \in 1..Len(buildCallPatterns(name)) |-> buildCallPatterns(name)[k].Type]

\* the order C24 names
C24_Order ==
    << CallTypeDefinition, CallTypeInstance, CallTypeClass, CallTypeStatic,
       CallTypeFunction, CallTypeDecorator >>

\* the list holds each of the six call types exactly once
EachTypeOnce(order) ==
    /\ Len(order) = 6
    /\ \A t \in CallTypes : Cardinality({k \in 1..Len(order) : order[k] = t}) = 1

\* the list without the decorator type
Undecorated(order) == SelectSeq(order, LAMBDA t : t # CallTypeDecorator)

\* classifyUsage with the patterns tried in a given order of their types
ClassifiedInOrder(order, line, name) ==
    IF CommentOnly(line) THEN NoMatch
    ELSE IF HasHash(line) /\ ~Contains(BeforeHash(line), name) THEN NoMatch
    ELSE classifyLoop([k \in 1..Len(order) |-> CallPattern(order[k], name)],
                      BeforeHash(line), name, 1)

\* C24 as stated: one order, definition, instance, class, static, function,
\* decorator, is both the order in which the classifier tries its patterns
\* and the order GetCallTypeOrder returns, which lists each type once.
C24_OneOrderForBoth ==
    Classified =>
        /\ PatternTypes(clsName) = C24_Order
        /\ GetCallTypeOrder = C24_Order
        /\ EachTypeOnce(GetCallTypeOrder)

\* C24 amended: GetCallTypeOrder returns definition, instance, class, static,
\* function, decorator, each type once; the classifier tries its patterns in
\* the order definition, decorator, instance, class, static, function.  The
\* two orders differ in the place of decorator only, and as no text matches
\* the decorator pattern together with another pattern, every line is
\* classified as it would be with the patterns tried in the display order.
C24_OrdersDifferInDecorator ==
    Classified =>
        /\ GetCallTypeOrder = C24_Order
        /\ EachTypeOnce(GetCallTypeOrder)
        /\ EachTypeOnce(PatternTypes(clsName))
        /\ PatternTypes(clsName)[2] = CallTypeDecorator
        /\ Undecorated(PatternTypes(clsName)) = Undecorated(GetCallTypeOrder)
        /\ \A t \in CallTypes \ {CallTypeDecorator} :
              ~( /\ Matches(CallTypeDecorator, BeforeHash(clsLine), clsName)
                 /\ Matches(t, BeforeHash(clsLine), clsName) )
        /\ clsResult = ClassifiedInOrder(GetCallTypeOrder, clsLine, clsName)

\* a line calling the name on self and on a class, which the instance
\* pattern and the static pattern both match, was classified
C24_Witness ==
    /\ Classified
    /\ MatchInstance(clsLine, clsName)
    /\ MatchStatic(clsLine, clsName)
    /\ MatchFunction(clsLine, clsName)
    /\ clsResult = ClassifiedInOrder(GetCallTypeOrder, clsLine, clsName)
    /\ clsResult.valid

\* ---------------------------------------------------------------------------
\* Properties of the fan-in of FindMethods (checked under Spec)
\* ---------------------------------------------------------------------------
\* how often x stands in the list q
Count(q, x) == Cardinality({k \in 1..Len(q) : q[k] = x})

\* the list the task of file i sends, given the outcome of its read
OwnList(i) ==
    fileMethods(files[i], EntryOf(i).Data, scanRead[i] = "ok",
                filters.SkipPrivate)

\* the lists of the tasks that have sent, one after the other
SentLists ==
    Flatten([i \in 1..Len(files) |->
                IF i \in Sent(scanPc) THEN OwnList(i) ELSE <<>>])

\* the lists of all tasks in the order perm of the tasks
InOrder(perm) == Flatten([k \in 1..Len(files) |-> OwnList(perm[k])])

\* C25: the fan-in of FindMethods loses and duplicates nothing.  At every
\* moment the definitions in the channel and in the collector's list are,
\* counted with multiplicity, those of the lists of the tasks that have
\* sent; and FindMethods returns the lists of all tasks, each whole and
\* once, one after the other in some order of the tasks.
C25_FanInExact ==
    /\ pc \in {"fm_spawn", "fm_collect"} =>
          \A m \in Range(SentLists) \cup Range(allMethods)
                     \cup Range(Flatten(methodsChan)) :
              Count(allMethods, m) + Count(Flatten(methodsChan), m)
                  = Count(SentLists, m)
    /\ FindMethodsJustReturned =>
          \E perm \in Permutations(1..Len(files)) : methods = InOrder(perm)

\* FindMethods returned the definitions of the second file before those of
\* the first
C25_Witness ==
    /\ FindMethodsJustReturned
    /\ Len(files) = 2
    /\ OwnList(1) # <<>>
    /\ OwnList(2) # <<>>
    /\ methods = OwnList(2) \o OwnList(1)

\* ---------------------------------------------------------------------------
\* Properties of runs on one file (checked under SpecOneFile)
\* ---------------------------------------------------------------------------
\* the text of the line on which method m was found
LineOfMethod(m) ==
    LET i == CHOOSE x \in 1..Len(files) : files[x].Path = m.Filename
    IN  LinesOf(i)[m.LineNo]

\* C26: the scanner and the classifier agree on what a definition is: for
\* every Method (name, file, line N) that FindMethods returns, classifyUsage
\* applied to line N of the file and the name returns definition.
C26_ScannedLineIsDefinition ==
    FindMethodsJustReturned =>
        \A k \in 1..Len(methods) :
            classifyUsage(LineOfMethod(methods[k]), methods[k].Name)
                = Matched(CallTypeDefinition)

\* ---------------------------------------------------------------------------
\* Properties of the comparator (checked under SpecResults)
\* ---------------------------------------------------------------------------
\* C27: the comparison SortResults hands to the sorting routine is a strict
\* ordering in both directions: under every key, ascending or not, no
\* record stands before itself and no two records stand each before the
\* other.
C27_ComparatorStrict ==
    pc = "done" =>
        \A i \in 1..Len(results) : \A j \in 1..Len(results) :
            LET cmp(a, b) == sortLess(a, b, sortFlags.sortBy, sortFlags.asc)
            IN  /\ ~cmp(results[i], results[i])
                /\ ~(cmp(results[i], results[j]) /\ cmp(results[j], results[i]))

\* ---------------------------------------------------------------------------
\* Properties of decorator lines (checked under SpecOneFile)
\* ---------------------------------------------------------------------------
\* the line is a bare decorator of the name: @name or @pkg.name, with
\* neither parentheses nor a trailing comment
BareDecorator(line, name) ==
    /\ MatchDecorator(line, name)
    /\ \A k \in 1..Len(line) : line[k] \notin {"(", ")", "#"}

\* the usage lies on line n of the file
OnLine(u, path, n) == HasPrefix(u.Location, path \o <<":">> \o Itoa(n) \o <<":">>)

\* every one of the lines that holds the name is a definition found by the
\* scanner or a bare decorator
OnlyBareDecorated(lines, name) ==
    \A n \in 1..Len(lines) :
        Contains(lines[n], name) =>
            \/ BareDecorator(lines[n], name)
            \/ FindStringSubmatch(lines[n]) = <<name>>

\* C28: a bare decorator line never is a Usage of any record of
\* AnalyzeMethodUsages: the search returns only lines in which the name is
\* followed by '(' and the decorator pattern wants the line to end after
\* the name; so a symbol that is used as a bare decorator only has no usage
\* of type decorator counted.
C28_BareDecoratorNeverCounted ==
    LET lines == LinesOf(1)
    IN  \A r \in SentRecords \cup Range(results) :
            /\ \A n \in 1..Len(lines) :
                  BareDecorator(lines[n], r.Method.Name) =>
                      /\ ~MatchSearch(lines[n], r.Method.Name)
                      /\ \A k \in 1..Len(r.Usages) :
                            ~OnLine(r.Usages[k], r.Method.Filename, n)
            /\ \A k \in 1..Len(r.Usages) :
                  ~BareDecorator(r.Usages[k].Context, r.Method.Name)
            /\ OnlyBareDecorated(lines, r.Method.Name) =>
                  CallTypeDecorator \notin DOMAIN r.UsagesByType

\* f, defined on line 1 and used as the bare decorator @f on line 2, has a
\* record whose only usage is its definition
C28_Witness ==
    /\ AnalyzeJustReturned
    /\ Len(LinesOf(1)) = 2
    /\ LinesOf(1)[1] = LnDefF
    /\ BareDecorator(LinesOf(1)[2], <<"f">>)
    /\ ~searchOut[1].err
    /\ Len(results) = 1
    /\ DOMAIN results[1].UsagesByType = {CallTypeDefinition}

====
